---- MODULE Spec2Model ----
(***************************************************************************)
(* Model of personalTool-stock-service: the market review aggregator       *)
(* (app/service/market_review_service.py), the review store                *)
(* (app/models/database.py), the review API handlers (app/api/market.py),  *)
(* the numeric normalizer (app/crawler/ths_crawler.py), the sentiment      *)
(* scorer (app/service/market_service.py), the sector rotation analyzer    *)
(* (app/service/sector_service.py), the row loop of the sector list        *)
(* crawler (app/crawler/ths_crawler.py) and the event relay                *)
(* (app/core/sse_manager.py).                                              *)
(*                                                                         *)
(* Text is modelled as a sequence of one-character strings.  Characters    *)
(* outside ASCII are written by a name: "yi" is U+4EBF, "wan" is U+4E07,   *)
(* "U6DA8" is U+6DA8.  The column names of the data aggregator are written *)
(* in pinyin: "daima" (code), "mingcheng" (name), "lianbanshu" (board      *)
(* count), "zhabancishu" (burst count), "zhangdiefu" (change pct),         *)
(* "chengjiaoe" (turnover amount), "chengjiaoliang" (traded volume).       *)
(***************************************************************************)
EXTENDS Integers, Sequences, FiniteSets, TLC

VARIABLES
    \* ---- review store (MySQL table market_review) and its clients
    table,      \* committed rows of market_review
    pending,    \* rows inserted by a connection that has not committed yet
    autoInc,    \* AUTO_INCREMENT counter of the table
    dbUp,       \* whether get_db_connection() succeeds
    clock,      \* CURRENT_TIMESTAMP of the database server
    calls,      \* the create requests, by request id
    \* ---- market review aggregator
    akshare,    \* AKSHARE_AVAILABLE
    today,      \* datetime.now(), as YYYYMMDD
    src,        \* the responses of the data aggregator's calls
    tradeDate,  \* the trade_date argument
    agg,        \* position and results of two successive aggregator calls
    \* ---- numeric normalizer
    text,       \* the token given to _parse_number
    parsed,     \* its outcome
    \* ---- sentiment scorer and sector rotation analyzer
    stats,      \* what crawler.get_market_statistics() does
    listed,     \* what crawler.get_sector_list() does
    emotion,    \* the outcome of get_market_emotion
    sectors,    \* the argument of analyze_sector_rotation
    rotation,   \* its outcome
    \* ---- sector list crawler
    all_rows,   \* the tr elements of the sector table, each a list of cells
    built,      \* the outcome of the row loop of get_sector_list
    \* ---- event relay
    sessions,   \* SSEManager._sessions: session id -> set of queues
    conns,      \* the generators made by connect, by connection id
    op          \* the operation that ran last

storeVars == <<table, pending, autoInc, dbUp, clock, calls>>
aggVars == <<akshare, today, src, tradeDate, agg>>
parseVars == <<text, parsed>>
svcVars == <<stats, listed, emotion, sectors, rotation>>
crawlVars == <<all_rows, built>>
sseVars == <<sessions, conns, op>>
vars == <<table, pending, autoInc, dbUp, clock, calls,
          akshare, today, src, tradeDate, agg, text, parsed,
          stats, listed, emotion, sectors, rotation,
          all_rows, built, sessions, conns, op>>

-----------------------------------------------------------------------------
(* Sequences *)

RECURSIVE SumSeq(_)
SumSeq(s) == IF s = <<>> THEN 0 ELSE Head(s) + SumSeq(Tail(s))

RECURSIVE MaxSeq(_)
MaxSeq(s) == IF Len(s) = 1 THEN s[1]
             ELSE LET m == MaxSeq(Tail(s)) IN IF s[1] >= m THEN s[1] ELSE m

RECURSIVE Flatten(_)
Flatten(ss) == IF ss = <<>> THEN <<>> ELSE Head(ss) \o Flatten(Tail(ss))

Repeat(x, n) == [i \in 1..n |-> x]

Max0(a, b) == IF a >= b THEN a ELSE b

-----------------------------------------------------------------------------
(* Numbers *)

\* a variant of RoundPct that rounds a half up
RoundPctHalfUp(a, b) == (200 * a + b) \div (2 * b)

\* Python's round(a / b * 100) for integers a >= 0, b > 0: round() of a float
\* rounds a half to the even neighbour.  The quotient is taken exactly here; the
\* double-precision product differs from it only on a half whose quotient a/b
\* is no dyadic rational, and the row sources below produce no such half.
RoundPct(a, b) ==
    LET q == (100 * a) \div b
        r == (100 * a) % b
    IN  IF 2 * r < b THEN q
        ELSE IF 2 * r > b THEN q + 1
        ELSE IF q % 2 = 0 THEN q ELSE q + 1

-----------------------------------------------------------------------------
(* Dates *)

Digits == <<"0", "1", "2", "3", "4", "5", "6", "7", "8", "9">>

DigitVal(c) == (CHOOSE i \in 1..10 : Digits[i] = c) - 1

IsDigit(c) == \E i \in 1..10 : Digits[i] = c

RECURSIVE NumVal(_)
NumVal(s) == IF s = <<>> THEN 0
             ELSE 10 * NumVal(SubSeq(s, 1, Len(s) - 1)) + DigitVal(s[Len(s)])

Pad(n, w) == [i \in 1..w |-> Digits[((n \div (10 ^ (w - i))) % 10) + 1]]

IsLeap(y) == (y % 4 = 0 /\ y % 100 # 0) \/ y % 400 = 0

DaysIn(y, m) == IF m = 2 THEN (IF IsLeap(y) THEN 29 ELSE 28)
                ELSE IF m \in {4, 6, 9, 11} THEN 30 ELSE 31

\* datetime.strptime(trade_date, '%Y%m%d') on an 8-digit text: the parsed
\* fields, and whether it raises ValueError.
Strptime(d) ==
    LET y == NumVal(SubSeq(d, 1, 4))
        m == NumVal(SubSeq(d, 5, 6))
        dd == NumVal(SubSeq(d, 7, 8))
    IN  [ok |-> Len(d) = 8 /\ (\A i \in 1..Len(d) : IsDigit(d[i]))
                /\ y >= 1 /\ m \in 1..12 /\ dd >= 1 /\ dd <= DaysIn(y, m),
         y |-> y, m |-> m, d |-> dd]

\* current_date - timedelta(days=1)
PrevDay(t) ==
    IF t.d > 1 THEN [y |-> t.y, m |-> t.m, d |-> t.d - 1]
    ELSE IF t.m > 1 THEN [y |-> t.y, m |-> t.m - 1, d |-> DaysIn(t.y, t.m - 1)]
    ELSE [y |-> t.y - 1, m |-> 12, d |-> 31]

\* strftime('%Y-%m-%d')
StrftimeDash(t) == Pad(t.y, 4) \o <<"-">> \o Pad(t.m, 2) \o <<"-">> \o Pad(t.d, 2)

\* Python slice s[a:b] (0-based, clipped to the text)
Slice(s, a, b) == SubSeq(s, a + 1, IF b <= Len(s) THEN b ELSE Len(s))

\* f"{trade_date[:4]}-{trade_date[4:6]}-{trade_date[6:8]}"
FormatDate(d) == Slice(d, 0, 4) \o <<"-">> \o Slice(d, 4, 6) \o <<"-">> \o Slice(d, 6, 8)

\* request.date.replace('-', '')
StripDashes(d) == SelectSeq(d, LAMBDA c : c # "-")

\* datetime.now().strftime('%Y%m%d') and strftime('%Y-%m-%d')
TodayDashed == FormatDate(today)

-----------------------------------------------------------------------------
(* Python values that are written to and read from the store as JSON text.   *)
(* Every value carries its type: a str (v: its characters), a list (v: its   *)
(* elements), a dict (v: its items in insertion order, each a key text and a *)
(* value) or None.                                                           *)

JStr(cs) == [t |-> "str", v |-> cs]

JArr(xs) == [t |-> "arr", v |-> xs]

JObj(items) == [t |-> "obj", v |-> items]

JNone == [t |-> "null", v |-> <<>>]

Item(k, x) == [k |-> k, x |-> x]

\* the keys the program uses
KeyDaima == <<"U4EE3", "U7801">>
KeyMingcheng == <<"U540D", "U79F0">>
KeyName == <<"n", "a", "m", "e">>
KeyCode == <<"c", "o", "d", "e">>
KeySector == <<"s", "e", "c", "t", "o", "r">>

\* isinstance(x, dict)
IsDict(x) == x.t = "obj"

\* the "not x" of Python on these values
Falsy(x) == x.t = "null" \/ x.v = <<>>

\* dict.get(key, '')
DictGet(d, key) ==
    LET hits == SelectSeq(d.v, LAMBDA it : it.k = key)
    IN  IF hits = <<>> THEN JStr(<<>>) ELSE hits[Len(hits)].x

-----------------------------------------------------------------------------
(* json.dumps(value, ensure_ascii=False) *)

\* the escape of one character inside a JSON string
EscapeChar(c) == IF c = "\"" THEN <<"\\", "\"">>
                 ELSE IF c = "\\" THEN <<"\\", "\\">>
                 ELSE <<c>>

DumpsStr(cs) == <<"\"">> \o Flatten([i \in 1..Len(cs) |-> EscapeChar(cs[i])]) \o <<"\"">>

\* the texts of a list's elements joined by ", " (of a dict's items by ", ")
RECURSIVE JoinTexts(_)
JoinTexts(ts) == IF ts = <<>> THEN <<>>
                 ELSE IF Len(ts) = 1 THEN ts[1]
                 ELSE ts[1] \o <<",", " ">> \o JoinTexts(Tail(ts))

RECURSIVE JsonDumps(_)
JsonDumps(x) ==
    IF x.t = "null" THEN <<"n", "u", "l", "l">>
    ELSE IF x.t = "str" THEN DumpsStr(x.v)
    ELSE IF x.t = "arr"
    THEN <<"[">> \o JoinTexts([i \in 1..Len(x.v) |-> JsonDumps(x.v[i])]) \o <<"]">>
    ELSE <<"{">>
         \o JoinTexts([i \in 1..Len(x.v) |->
                          DumpsStr(x.v[i].k) \o <<":", " ">> \o JsonDumps(x.v[i].x)])
         \o <<"}">>

-----------------------------------------------------------------------------
(* json.loads(text), for the JSON of strings, lists, dicts and null.  A      *)
(* parse result is [ok, val, rest]; ok = FALSE is json.JSONDecodeError.      *)

IsWs(c) == c \in {" ", "\n", "\t", "\r"}

RECURSIVE SkipWs(_)
SkipWs(s) == IF s # <<>> /\ IsWs(s[1]) THEN SkipWs(Tail(s)) ELSE s

ParseFail == [ok |-> FALSE, val |-> JNone, rest |-> <<>>]

ParseOk(val, rest) == [ok |-> TRUE, val |-> val, rest |-> rest]

\* the characters of a string, s being the text after its opening quote
RECURSIVE ParseChars(_, _)
ParseChars(s, acc) ==
    IF s = <<>> THEN ParseFail
    ELSE IF s[1] = "\"" THEN ParseOk(JStr(acc), Tail(s))
    ELSE IF s[1] = "\\"
    THEN IF Len(s) >= 2 /\ s[2] \in {"\"", "\\"}
         THEN ParseChars(SubSeq(s, 3, Len(s)), Append(acc, s[2]))
         ELSE ParseFail
    ELSE ParseChars(Tail(s), Append(acc, s[1]))

RECURSIVE ParseValue(_)
RECURSIVE ParseElems(_, _)
RECURSIVE ParseItems(_, _)

\* a list, r being the text after its bracket and white space
ParseList(r) ==
    IF r # <<>> /\ r[1] = "]" THEN ParseOk(JArr(<<>>), Tail(r))
    ELSE ParseElems(r, <<>>)

\* a dict, r being the text after its brace and white space
ParseDict(r) ==
    IF r # <<>> /\ r[1] = "}" THEN ParseOk(JObj(<<>>), Tail(r))
    ELSE ParseItems(r, <<>>)

\* a value, s being the text at its first character
ParseValueAt(s) ==
    IF s = <<>> THEN ParseFail
    ELSE IF s[1] = "\"" THEN ParseChars(Tail(s), <<>>)
    ELSE IF Len(s) >= 4 /\ SubSeq(s, 1, 4) = <<"n", "u", "l", "l">>
    THEN ParseOk(JNone, SubSeq(s, 5, Len(s)))
    ELSE IF s[1] = "[" THEN ParseList(SkipWs(Tail(s)))
    ELSE IF s[1] = "{" THEN ParseDict(SkipWs(Tail(s)))
    ELSE ParseFail

ParseValue(s0) == ParseValueAt(SkipWs(s0))

\* after the element acc2[Len(acc2)] of a list, r being the text that follows
ElemsNext(acc2, r) ==
    IF r = <<>> THEN ParseFail
    ELSE IF r[1] = "]" THEN ParseOk(JArr(acc2), Tail(r))
    ELSE IF r[1] = "," THEN ParseElems(Tail(r), acc2)
    ELSE ParseFail

ElemsAfter(e, acc) ==
    IF ~e.ok THEN ParseFail ELSE ElemsNext(Append(acc, e.val), SkipWs(e.rest))

\* the elements of a list, s being the text at an element
ParseElems(s, acc) == ElemsAfter(ParseValue(s), acc)

\* the items of a dict, s being the text at a key; a repeated key keeps its
\* place and takes the later value
PutItem(items, k, x) ==
    IF \E i \in 1..Len(items) : items[i].k = k
    THEN [i \in 1..Len(items) |-> IF items[i].k = k THEN Item(k, x) ELSE items[i]]
    ELSE Append(items, Item(k, x))

ItemsNext(acc2, r) ==
    IF r = <<>> THEN ParseFail
    ELSE IF r[1] = "}" THEN ParseOk(JObj(acc2), Tail(r))
    ELSE IF r[1] = "," THEN ParseItems(Tail(r), acc2)
    ELSE ParseFail

ItemsAfterValue(k, e, acc) ==
    IF ~e.ok THEN ParseFail
    ELSE ItemsNext(PutItem(acc, k, e.val), SkipWs(e.rest))

ItemsAfterColon(k, c, acc) ==
    IF c # <<>> /\ c[1] = ":" THEN ItemsAfterValue(k, ParseValue(Tail(c)), acc)
    ELSE ParseFail

ItemsAfterKey(k, acc) ==
    IF ~k.ok THEN ParseFail ELSE ItemsAfterColon(k.val.v, SkipWs(k.rest), acc)

ItemsAt(s, acc) ==
    IF s # <<>> /\ s[1] = "\"" THEN ItemsAfterKey(ParseChars(Tail(s), <<>>), acc)
    ELSE ParseFail

ParseItems(s0, acc) == ItemsAt(SkipWs(s0), acc)

\* json.loads: a value and nothing but white space after it
Complete(p) == IF p.ok /\ SkipWs(p.rest) = <<>> THEN p ELSE ParseFail

JsonLoads(s) == Complete(ParseValue(s))

-----------------------------------------------------------------------------
(* Data frames of the data aggregator (akshare).  A frame is a sequence of   *)
(* row groups, a group standing for cnt consecutive equal rows, together     *)
(* with the set of its column names; ok = FALSE is a call that raised (or    *)
(* timed out).  A call returning None is the frame without rows.             *)

FailedCall == [ok |-> FALSE, rows |-> <<>>, cols |-> {}]

Frame(rows, cols) == [ok |-> TRUE, rows |-> rows, cols |-> cols]

\* len(df)
FrameLen(f) == SumSeq([i \in 1..Len(f.rows) |-> f.rows[i].cnt])

\* df is not None and not df.empty
NonEmpty(f) == FrameLen(f) > 0

\* df[cond]: the frame with the groups whose rows satisfy cond
Filter(f, rows) == [f EXCEPT !.rows = rows]

\* a variant of ToDictRecords that takes the code for the name column too
ToDictRecordsOfCode(f) ==
    Flatten([i \in 1..Len(f.rows) |->
                Repeat(JObj(<<Item(KeyDaima, f.rows[i].code),
                              Item(KeyMingcheng, f.rows[i].code)>>),
                       f.rows[i].cnt)])

\* df[['daima', 'mingcheng']].to_dict('records')
ToDictRecords(f) ==
    Flatten([i \in 1..Len(f.rows) |->
                Repeat(JObj(<<Item(KeyDaima, f.rows[i].code),
                              Item(KeyMingcheng, f.rows[i].name)>>),
                       f.rows[i].cnt)])

\* int(df['lianbanshu'].max())
MaxBoards(f) == MaxSeq([i \in 1..Len(f.rows) |-> f.rows[i].boards])

-----------------------------------------------------------------------------
(* Review store: reading (MarketReviewModel.get_by_date, _row_to_dict).      *)
(* A nullable column holds None or Some(value).                              *)

\* Optional values: <<>> is None, <<v>> is v.
None == <<>>

Some(v) == <<v>>

\* parse_json_field(value)
\* the value of json.loads, [] when it raised
LoadedOrEmpty(p) == IF p.ok THEN p.val ELSE JArr(<<>>)

parse_json_field(col) ==
    IF col = None \/ col[1] = <<>> \/ col[1] = <<"[", "]">> THEN JArr(<<>>)
    ELSE LoadedOrEmpty(JsonLoads(col[1]))

row_to_dict(row) ==
    [id |-> row.id,
     date |-> row.date,
     volume |-> row.volume,
     red_count |-> row.red_count,
     green_count |-> row.green_count,
     limit_up_count |-> row.limit_up_count,
     limit_down_count |-> row.limit_down_count,
     zt_count |-> row.zt_count,
     zt_rate |-> row.zt_rate,
     total_continuous_limit |-> row.total_continuous_limit,
     continuous_limit_rate |-> row.continuous_limit_rate,
     four_plus_count |-> row.four_plus_count,
     four_plus_stocks |-> parse_json_field(row.four_plus_stocks),
     two_board_count |-> row.two_board_count,
     three_board_count |-> row.three_board_count,
     three_board_stocks |-> parse_json_field(row.three_board_stocks),
     total_stocks |-> row.total_stocks,
     hot_sectors |-> parse_json_field(row.hot_sectors),
     notes |-> IF row.notes = None \/ row.notes[1] = <<>> THEN JStr(<<>>)
               ELSE JStr(row.notes[1]),
     created_at |-> row.created_at,
     updated_at |-> row.updated_at,
     red_rate |-> row.red_rate,
     market_strength |-> row.market_strength,
     max_continuous_days |-> row.max_continuous_days,
     first_board_count |-> row.first_board_count,
     three_board_stocks_with_sector |-> parse_json_field(row.three_board_stocks_with_sector),
     four_plus_stocks_with_sector |-> parse_json_field(row.four_plus_stocks_with_sector)]

\* a variant of GetByDateIn whose SELECT has no WHERE clause
GetByDateAnyDate(tbl, up, date) ==
    IF ~up \/ tbl = {} THEN None
    ELSE Some(row_to_dict(CHOOSE r \in tbl : TRUE))

\* get_by_date on the rows tbl, the database being reachable or not:
\* SELECT * FROM market_review WHERE date = %s; fetchone()
GetByDateIn(tbl, up, date) ==
    LET rows == {r \in tbl : r.date = date}
    IN  IF ~up \/ rows = {} THEN None
        ELSE Some(row_to_dict(CHOOSE r \in rows : TRUE))

get_by_date(date) == GetByDateIn(table, dbUp, date)

-----------------------------------------------------------------------------
(* Market review aggregator (MarketReviewService)                            *)

\* a variant of calculate_market_strength whose thresholds are exclusive
StrengthAboveThreshold(red_count, green_count, total_stocks) ==
    IF total_stocks = 0 THEN ""
    ELSE IF 10 * red_count > 8 * total_stocks THEN "jiqiang"
    ELSE IF 10 * red_count > 6 * total_stocks THEN "qiang"
    ELSE IF 10 * red_count > 5 * total_stocks THEN "pianqiang"
    ELSE IF 10 * red_count > 4 * total_stocks THEN "zhongxing"
    ELSE IF 10 * red_count > 2 * total_stocks THEN "pianruo"
    ELSE "ruo"

\* market_strength labels: "jiqiang" is extremely strong, "qiang" strong,
\* "pianqiang" slightly strong, "zhongxing" neutral, "pianruo" slightly weak,
\* "ruo" weak.
calculate_market_strength(red_count, green_count, total_stocks) ==
    IF total_stocks = 0 THEN ""
    ELSE IF 10 * red_count >= 8 * total_stocks THEN "jiqiang"
    ELSE IF 10 * red_count >= 6 * total_stocks THEN "qiang"
    ELSE IF 10 * red_count >= 5 * total_stocks THEN "pianqiang"
    ELSE IF 10 * red_count >= 4 * total_stocks THEN "zhongxing"
    ELSE IF 10 * red_count >= 2 * total_stocks THEN "pianruo"
    ELSE "ruo"

get_max_continuous_days(four_plus_df) ==
    IF NonEmpty(four_plus_df) /\ "lianbanshu" \in four_plus_df.cols
    THEN MaxBoards(four_plus_df) ELSE 0

extract_stocks_with_sector(stocks_list) ==
    IF Falsy(stocks_list) THEN JArr(<<>>)
    ELSE LET dicts == SelectSeq(stocks_list.v, IsDict)
         IN  JArr([i \in 1..Len(dicts) |->
                     JObj(<<Item(KeyName, DictGet(dicts[i], KeyName)),
                            Item(KeyCode, DictGet(dicts[i], KeyCode)),
                            Item(KeySector, JStr(<<>>))>>)])

get_empty_data ==
    [date |-> TodayDashed, volume |-> 0, red_count |-> 0, green_count |-> 0,
     limit_up_count |-> 0, limit_down_count |-> 0, zt_count |-> 0, zt_rate |-> 0,
     total_continuous_limit |-> 0, continuous_limit_rate |-> 0,
     four_plus_count |-> 0, four_plus_stocks |-> JArr(<<>>),
     two_board_count |-> 0, three_board_count |-> 0,
     three_board_stocks |-> JArr(<<>>), total_stocks |-> 0,
     red_rate |-> 0, market_strength |-> "", max_continuous_days |-> 0,
     first_board_count |-> 0,
     three_board_stocks_with_sector |-> JArr(<<>>),
     four_plus_stocks_with_sector |-> JArr(<<>>)]

\* step 1: the limit-up pool, ak.stock_zt_pool_em
LimitUpStep(s) ==
    LET n == IF s.zt1.ok /\ NonEmpty(s.zt1) THEN FrameLen(s.zt1) ELSE 0
    IN  [limit_up_count |-> n, is_valid_date |-> n # 0]

\* step 2: the limit-down pool, ak.stock_zt_pool_dtgc_em
LimitDownStep(s) ==
    IF s.dt.ok /\ NonEmpty(s.dt) THEN FrameLen(s.dt) ELSE 0

\* step 3: the consecutive-board pool, ak.stock_zt_pool_em again.  bound says
\* whether the local four_plus_df has been assigned.
ContinuousZero(bound, df) ==
    [total_continuous_limit |-> 0, two_board_count |-> 0, three_board_count |-> 0,
     four_plus_count |-> 0, four_plus_stocks |-> JArr(<<>>),
     three_board_stocks |-> JArr(<<>>), bound |-> bound, four_plus_df |-> df]

ContinuousStep(s) ==
    LET f == s.zt3
        two == Filter(f, SelectSeq(f.rows, LAMBDA g : g.boards = 2))
        three == Filter(f, SelectSeq(f.rows, LAMBDA g : g.boards = 3))
        four == Filter(f, SelectSeq(f.rows, LAMBDA g : g.boards >= 4))
        named == {"daima", "mingcheng"} \subseteq f.cols
    IN  IF ~f.ok THEN ContinuousZero(FALSE, FailedCall)
        ELSE IF ~NonEmpty(f) THEN ContinuousZero(FALSE, FailedCall)
        ELSE IF "lianbanshu" \notin f.cols
        THEN [ContinuousZero(FALSE, FailedCall)
                 EXCEPT !.total_continuous_limit = FrameLen(f)]
        ELSE IF ~named /\ (NonEmpty(four) \/ NonEmpty(three))
        THEN ContinuousZero(TRUE, four)       \* KeyError after line 103
        ELSE [total_continuous_limit |-> FrameLen(f),
              two_board_count |-> FrameLen(two),
              three_board_count |-> FrameLen(three),
              four_plus_count |-> FrameLen(four),
              four_plus_stocks |-> JArr(ToDictRecords(four)),
              three_board_stocks |-> JArr(ToDictRecords(three)),
              bound |-> TRUE, four_plus_df |-> four]

\* step 4: the full-market snapshot, ak.stock_zh_a_spot_em
MarketStatZero == [total_stocks |-> 0, red_count |-> 0, green_count |-> 0, volume |-> 0]

MarketStatStep(s, is_valid_date) ==
    LET f == s.spot
        hasChg == "zhangdiefu" \in f.cols
    IN  IF ~is_valid_date THEN MarketStatZero
        ELSE IF ~f.ok \/ ~NonEmpty(f) THEN MarketStatZero
        ELSE [total_stocks |-> FrameLen(f),
              red_count |-> IF hasChg THEN FrameLen(Filter(f, SelectSeq(f.rows, LAMBDA g : g.chg > 0))) ELSE 0,
              green_count |-> IF hasChg THEN FrameLen(Filter(f, SelectSeq(f.rows, LAMBDA g : g.chg < 0))) ELSE 0,
              volume |-> IF "chengjiaoe" \in f.cols
                         THEN SumSeq([i \in 1..Len(f.rows) |-> f.rows[i].cnt * f.rows[i].amt])
                         ELSE IF "chengjiaoliang" \in f.cols
                         THEN SumSeq([i \in 1..Len(f.rows) |-> f.rows[i].cnt * f.rows[i].vol])
                         ELSE 0]

\* step 5: the burst pool, ak.stock_zt_pool_zbgc_em, else the burst counts of
\* ak.stock_zt_pool_em
BurstStep(s, limit_up_count) ==
    LET failed == ~s.zb.ok \/ (~NonEmpty(s.zb) /\ ~s.zt5.ok)
        zt_count == IF NonEmpty(s.zb) THEN FrameLen(s.zb)
                    ELSE IF NonEmpty(s.zt5) /\ "zhabancishu" \in s.zt5.cols
                    THEN FrameLen(Filter(s.zt5, SelectSeq(s.zt5.rows, LAMBDA g : g.burst > 0)))
                    ELSE 0
        total_zt == zt_count + limit_up_count
    IN  IF failed THEN [zt_count |-> 0, zt_rate |-> 0]
        ELSE [zt_count |-> zt_count,
              zt_rate |-> IF total_zt > 0 THEN RoundPct(zt_count, total_zt) ELSE 0]

\* step 6: the consecutive-board rate against the previous day's record
LimitUpCountOf(prev_review) ==
    IF prev_review # None THEN prev_review[1].limit_up_count ELSE 0

PrevLimitUpCount(trade_date) ==
    LimitUpCountOf(get_by_date(StrftimeDash(PrevDay(Strptime(trade_date)))))

ContinuousRateStep(trade_date, total_continuous_limit, total_stocks) ==
    LET t == Strptime(trade_date)
        prev_limit_up_count == PrevLimitUpCount(trade_date)
    IN  IF ~t.ok
        THEN IF total_stocks > 0 THEN RoundPct(total_continuous_limit, total_stocks) ELSE 0
        ELSE IF prev_limit_up_count > 0
        THEN RoundPct(total_continuous_limit, prev_limit_up_count)
        ELSE 0

FirstBoard(limit_up_count, total_continuous_limit) ==
    IF limit_up_count # 0 /\ total_continuous_limit # 0
    THEN Max0(0, limit_up_count - total_continuous_limit) ELSE 0

\* the body of the outer try, lines 57-271: raised says whether it ends in the
\* outer except (four_plus_df read before assignment, line 264)
ReviewBody(trade_date0, s) ==
    LET trade_date == IF trade_date0 = <<>> THEN today ELSE trade_date0
        up == LimitUpStep(s)
        down == LimitDownStep(s)
        c == ContinuousStep(s)
        m == MarketStatStep(s, up.is_valid_date)
        b == BurstStep(s, up.limit_up_count)
        rate == ContinuousRateStep(trade_date, c.total_continuous_limit, m.total_stocks)
    IN  [raised |-> ~c.bound,
         result |->
           [date |-> FormatDate(trade_date),
            volume |-> m.volume,
            red_count |-> m.red_count,
            green_count |-> m.green_count,
            limit_up_count |-> up.limit_up_count,
            limit_down_count |-> down,
            zt_count |-> b.zt_count,
            zt_rate |-> b.zt_rate,
            total_continuous_limit |-> c.total_continuous_limit,
            continuous_limit_rate |-> rate,
            four_plus_count |-> c.four_plus_count,
            four_plus_stocks |-> c.four_plus_stocks,
            two_board_count |-> c.two_board_count,
            three_board_count |-> c.three_board_count,
            three_board_stocks |-> c.three_board_stocks,
            total_stocks |-> m.total_stocks,
            red_rate |-> IF m.total_stocks > 0
                         THEN RoundPct(m.red_count, m.total_stocks) ELSE 0,
            market_strength |->
                calculate_market_strength(m.red_count, m.green_count, m.total_stocks),
            max_continuous_days |-> get_max_continuous_days(c.four_plus_df),
            first_board_count |-> FirstBoard(up.limit_up_count, c.total_continuous_limit),
            three_board_stocks_with_sector |->
                extract_stocks_with_sector(c.three_board_stocks),
            four_plus_stocks_with_sector |->
                extract_stocks_with_sector(c.four_plus_stocks)]]

\* a variant of get_market_review_data without the availability check and
\* without the outer except
ReviewDataUnguarded(trade_date, s) == ReviewBody(trade_date, s).result

get_market_review_data(trade_date, s) ==
    IF ~akshare THEN get_empty_data
    ELSE LET body == ReviewBody(trade_date, s)
         IN  IF body.raised THEN get_empty_data ELSE body.result

-----------------------------------------------------------------------------
(* Review store: writing (MarketReviewModel.create, update, delete).  The    *)
(* table market_review is kept by MySQL; its key is the AUTO_INCREMENT id    *)
(* (cursor.lastrowid) and date carries a unique index, which is what makes   *)
(* the INSERT of create raise pymysql.IntegrityError.                        *)

\* review_data.get(key, default)
Get(d, key, default) == IF key \in DOMAIN d THEN d[key] ELSE default

\* a str or None given for a text column
TextColumn(x) == IF x.t = "str" THEN Some(x.v) ELSE None

\* a variant of NewRow that writes four_plus_stocks_with_sector into both
\* *_with_sector columns
NewRowWrongColumn(review_data, id) ==
    [id |-> id,
     date |-> Get(review_data, "date", <<>>),
     volume |-> Get(review_data, "volume", 0),
     red_count |-> Get(review_data, "red_count", 0),
     green_count |-> Get(review_data, "green_count", 0),
     limit_up_count |-> Get(review_data, "limit_up_count", 0),
     limit_down_count |-> Get(review_data, "limit_down_count", 0),
     zt_count |-> Get(review_data, "zt_count", 0),
     zt_rate |-> Get(review_data, "zt_rate", 0),
     total_continuous_limit |-> Get(review_data, "total_continuous_limit", 0),
     continuous_limit_rate |-> Get(review_data, "continuous_limit_rate", 0),
     four_plus_count |-> Get(review_data, "four_plus_count", 0),
     four_plus_stocks |-> Some(JsonDumps(Get(review_data, "four_plus_stocks", JArr(<<>>)))),
     two_board_count |-> Get(review_data, "two_board_count", 0),
     three_board_count |-> Get(review_data, "three_board_count", 0),
     three_board_stocks |-> Some(JsonDumps(Get(review_data, "three_board_stocks", JArr(<<>>)))),
     total_stocks |-> Get(review_data, "total_stocks", 0),
     hot_sectors |-> Some(JsonDumps(Get(review_data, "hot_sectors", JArr(<<>>)))),
     notes |-> TextColumn(Get(review_data, "notes", JStr(<<>>))),
     red_rate |-> Get(review_data, "red_rate", 0),
     market_strength |-> Get(review_data, "market_strength", ""),
     max_continuous_days |-> Get(review_data, "max_continuous_days", 0),
     first_board_count |-> Get(review_data, "first_board_count", 0),
     three_board_stocks_with_sector |->
         Some(JsonDumps(Get(review_data, "four_plus_stocks_with_sector", JArr(<<>>)))),
     four_plus_stocks_with_sector |->
         Some(JsonDumps(Get(review_data, "four_plus_stocks_with_sector", JArr(<<>>)))),
     created_at |-> clock,
     updated_at |-> clock]

\* the row that the INSERT of create writes
NewRow(review_data, id) ==
    [id |-> id,
     date |-> Get(review_data, "date", <<>>),
     volume |-> Get(review_data, "volume", 0),
     red_count |-> Get(review_data, "red_count", 0),
     green_count |-> Get(review_data, "green_count", 0),
     limit_up_count |-> Get(review_data, "limit_up_count", 0),
     limit_down_count |-> Get(review_data, "limit_down_count", 0),
     zt_count |-> Get(review_data, "zt_count", 0),
     zt_rate |-> Get(review_data, "zt_rate", 0),
     total_continuous_limit |-> Get(review_data, "total_continuous_limit", 0),
     continuous_limit_rate |-> Get(review_data, "continuous_limit_rate", 0),
     four_plus_count |-> Get(review_data, "four_plus_count", 0),
     four_plus_stocks |-> Some(JsonDumps(Get(review_data, "four_plus_stocks", JArr(<<>>)))),
     two_board_count |-> Get(review_data, "two_board_count", 0),
     three_board_count |-> Get(review_data, "three_board_count", 0),
     three_board_stocks |-> Some(JsonDumps(Get(review_data, "three_board_stocks", JArr(<<>>)))),
     total_stocks |-> Get(review_data, "total_stocks", 0),
     hot_sectors |-> Some(JsonDumps(Get(review_data, "hot_sectors", JArr(<<>>)))),
     notes |-> TextColumn(Get(review_data, "notes", JStr(<<>>))),
     red_rate |-> Get(review_data, "red_rate", 0),
     market_strength |-> Get(review_data, "market_strength", ""),
     max_continuous_days |-> Get(review_data, "max_continuous_days", 0),
     first_board_count |-> Get(review_data, "first_board_count", 0),
     three_board_stocks_with_sector |->
         Some(JsonDumps(Get(review_data, "three_board_stocks_with_sector", JArr(<<>>)))),
     four_plus_stocks_with_sector |->
         Some(JsonDumps(Get(review_data, "four_plus_stocks_with_sector", JArr(<<>>)))),
     created_at |-> clock,
     updated_at |-> clock]

\* the unique index on date: a committed row of the date makes the INSERT
\* raise IntegrityError; an uncommitted row of another connection makes it wait
Duplicate(date) == \E r \in table : r.date = date

MustWait(i, date) == \E p \in pending : p.by # i /\ p.row.date = date

\* a variant of UpdatedRow that also SETs date
UpdatedRowWithDate(row, review_data) ==
    [row EXCEPT !.hot_sectors = Some(JsonDumps(Get(review_data, "hot_sectors", JArr(<<>>)))),
                !.notes = TextColumn(Get(review_data, "notes", JStr(<<>>))),
                !.date = Get(review_data, "date", row.date),
                !.updated_at = clock]

\* the row that the UPDATE of update writes
UpdatedRow(row, review_data) ==
    [row EXCEPT !.hot_sectors = Some(JsonDumps(Get(review_data, "hot_sectors", JArr(<<>>)))),
                !.notes = TextColumn(Get(review_data, "notes", JStr(<<>>))),
                !.updated_at = clock]

-----------------------------------------------------------------------------
(* Bounds *)

NCalls == 2         \* create requests that can be in flight together
MaxId == 2          \* AUTO_INCREMENT values handed out
MaxClock == 1       \* readings of CURRENT_TIMESTAMP after the first
AggCalls == 2       \* successive calls of get_market_review_data

-----------------------------------------------------------------------------
(* Inputs *)

D20250103 == <<"2", "0", "2", "5", "0", "1", "0", "3">>
D20250104 == <<"2", "0", "2", "5", "0", "1", "0", "4">>
D20250105 == <<"2", "0", "2", "5", "0", "1", "0", "5">>
D20250106 == <<"2", "0", "2", "5", "0", "1", "0", "6">>
D20250230 == <<"2", "0", "2", "5", "0", "2", "3", "0">>

Days == <<D20250105, D20250106>>

\* texts with a non-ASCII character, a quote, a backslash and JSON punctuation
Code1 == JStr(<<"6", "0">>)
Code2 == JStr(<<"0", "0">>)
Name1 == JStr(<<"U6DA8", "\"">>)
Name2 == JStr(<<"a", "\\", "]">>)
Name3 == JStr(<<",", " ", "U6DA8">>)

G(cnt, code, name, boards, burst) ==
    [cnt |-> cnt, code |-> code, name |-> name, boards |-> boards, burst |-> burst]

PoolCols == {"daima", "mingcheng", "lianbanshu", "zhabancishu"}

Pool50 == Frame(<<G(47, Code1, Name1, 1, 0), G(1, Code2, Name2, 2, 1),
                  G(1, Code1, Name3, 3, 0), G(1, Code2, Name1, 5, 0)>>, PoolCols)
Pool3 == Frame(<<G(1, Code1, Name1, 2, 0), G(1, Code2, Name2, 3, 1),
                 G(1, Code1, Name3, 5, 0)>>, PoolCols)
PoolMixed == Frame(<<G(2, Code1, Name1, 1, 0), G(2, Code2, Name2, 3, 0),
                     G(1, Code1, Name3, 4, 1), G(1, Code1, Name2, 2, 0),
                     G(1, Code2, Name1, 6, 0)>>, PoolCols)
PoolEmpty == Frame(<<>>, PoolCols)
PoolNoBoards == Frame(<<G(2, Code1, Name1, 0, 0)>>, {"daima", "mingcheng"})
PoolNoNames == Frame(<<G(1, Code1, Name1, 3, 0), G(1, Code2, Name2, 4, 0)>>,
                     {"lianbanshu", "zhabancishu"})
Down5 == Frame(<<G(5, Code2, Name2, 0, 0)>>, PoolCols)
Burst2 == Frame(<<G(2, Code1, Name3, 0, 1)>>, PoolCols)

S(cnt, chg, amt, vol) == [cnt |-> cnt, chg |-> chg, amt |-> amt, vol |-> vol]

SpotCols == {"zhangdiefu", "chengjiaoe", "chengjiaoliang"}

Spot4000 == Frame(<<S(2500, 1, 3, 1), S(1400, -2, 2, 1), S(100, 0, 1, 1)>>, SpotCols)
Spot5 == Frame(<<S(2, 3, 7, 2), S(2, -1, 5, 1), S(1, 0, 1, 1)>>,
               {"zhangdiefu", "chengjiaoliang"})

Sources(zt1, dt, zt3, spot, zb, zt5) ==
    [zt1 |-> zt1, dt |-> dt, zt3 |-> zt3, spot |-> spot, zb |-> zb, zt5 |-> zt5]

\* every combination of these responses
AllSources ==
    [zt1 : {FailedCall, PoolEmpty, Pool50},
     dt : {FailedCall, Down5},
     zt3 : {FailedCall, PoolEmpty, Pool3, PoolMixed, PoolNoBoards, PoolNoNames},
     spot : {FailedCall, Spot4000, Spot5},
     zb : {FailedCall, PoolEmpty, Burst2},
     zt5 : {FailedCall, Pool3}]

SrcOk == Sources(Pool50, Down5, Pool3, Spot4000, PoolEmpty, Pool3)
SrcDown == Sources(FailedCall, FailedCall, FailedCall, FailedCall, FailedCall, FailedCall)

\* a record as the pipeline makes it, for a row stored before the run starts
SeedData(date, limit_up_count) ==
    [date |-> date, volume |-> 0, red_count |-> 0, green_count |-> 0,
     limit_up_count |-> limit_up_count, limit_down_count |-> 0, zt_count |-> 0,
     zt_rate |-> 0, total_continuous_limit |-> 0, continuous_limit_rate |-> 0,
     four_plus_count |-> 0, four_plus_stocks |-> JArr(<<>>),
     two_board_count |-> 0, three_board_count |-> 0,
     three_board_stocks |-> JArr(<<>>), total_stocks |-> 0,
     red_rate |-> 0, market_strength |-> "", max_continuous_days |-> 0,
     first_board_count |-> 0,
     three_board_stocks_with_sector |-> JArr(<<>>),
     four_plus_stocks_with_sector |-> JArr(<<>>),
     hot_sectors |-> JArr(<<>>), notes |-> JStr(<<>>)]

IdleCall == [pc |-> "idle"]

NoAgg == [outs |-> <<>>, envs |-> <<>>, fresh |-> FALSE]

\* the sentiment scorer and the rotation analyzer before they are called
Raised == [ok |-> FALSE]

SvcIdle ==
    /\ stats = Raised
    /\ listed = Raised
    /\ emotion = [done |-> FALSE]
    /\ sectors = <<>>
    /\ rotation = [done |-> FALSE]

\* the crawler before its table is read
CrawlIdle ==
    /\ all_rows = <<>>
    /\ built = [done |-> FALSE]

\* no operation ran yet
NoOp == [name |-> "none"]

\* the event relay without a client
SseIdle ==
    /\ sessions = <<>>
    /\ conns = <<>>
    /\ op = NoOp

-----------------------------------------------------------------------------
(* The aggregator on its own: GET /review                                    *)

\* what a call can see of the clock and of the store: the current day and the
\* limit_up_count stored for the day before the trade date
TradeDateUsed == IF tradeDate = <<>> THEN today ELSE tradeDate

AggEnv == [today |-> today,
           prev |-> IF dbUp
                    THEN {r.limit_up_count : r \in
                             {x \in table : x.date = StrftimeDash(PrevDay(Strptime(TradeDateUsed)))}}
                    ELSE {}]

AggInit ==
    /\ akshare \in BOOLEAN
    /\ today = Days[1]
    /\ tradeDate \in {<<>>, D20250105, D20250230}
    /\ src \in (IF akshare THEN AllSources ELSE {SrcOk})
    /\ agg = NoAgg
    /\ dbUp = TRUE
    /\ clock = 0
    /\ autoInc = 2
    /\ table \in {{}, {NewRow(SeedData(FormatDate(D20250104), 50), 1)},
                  {NewRow(SeedData(FormatDate(D20250103), 50), 1)}}
    /\ pending = {}
    /\ calls = [i \in 1..NCalls |-> IdleCall]
    /\ text = <<>>
    /\ parsed = [done |-> FALSE]
    /\ SvcIdle
    /\ CrawlIdle
    /\ SseIdle

\* get_market_review(trade_date), market.py
GetReview ==
    /\ Len(agg.outs) < AggCalls
    /\ agg' = [outs |-> Append(agg.outs, get_market_review_data(tradeDate, src)),
               envs |-> Append(agg.envs, AggEnv),
               fresh |-> TRUE]
    /\ UNCHANGED <<akshare, today, src, tradeDate>>
    /\ UNCHANGED storeVars
    /\ UNCHANGED parseVars
    /\ UNCHANGED crawlVars
    /\ UNCHANGED sseVars
    /\ UNCHANGED svcVars

\* midnight passes
NewDay ==
    /\ \E k \in 1..(Len(Days) - 1) : today = Days[k] /\ today' = Days[k + 1]
    /\ agg' = [agg EXCEPT !.fresh = FALSE]
    /\ UNCHANGED <<akshare, src, tradeDate>>
    /\ UNCHANGED storeVars
    /\ UNCHANGED parseVars
    /\ UNCHANGED crawlVars
    /\ UNCHANGED sseVars
    /\ UNCHANGED svcVars

\* MarketReviewModel.delete(review_id)
delete(review_id) ==
    /\ table' = IF dbUp THEN {r \in table : r.id # review_id} ELSE table
    /\ UNCHANGED <<pending, autoInc, dbUp, clock, calls>>

DeleteReview ==
    /\ \E id \in 1..MaxId : delete(id)
    /\ agg' = [agg EXCEPT !.fresh = FALSE]
    /\ UNCHANGED <<akshare, today, src, tradeDate>>
    /\ UNCHANGED parseVars
    /\ UNCHANGED crawlVars
    /\ UNCHANGED sseVars
    /\ UNCHANGED svcVars

\* the database server goes away or comes back
DbToggle ==
    /\ dbUp' = ~dbUp
    /\ agg' = [agg EXCEPT !.fresh = FALSE]
    /\ UNCHANGED <<table, pending, autoInc, clock, calls>>
    /\ UNCHANGED <<akshare, today, src, tradeDate>>
    /\ UNCHANGED parseVars
    /\ UNCHANGED crawlVars
    /\ UNCHANGED sseVars
    /\ UNCHANGED svcVars

AggNext == GetReview \/ NewDay \/ DeleteReview

SpecAgg == AggInit /\ [][AggNext]_vars

\* the aggregator over snapshots of up to MaxSpot rising, MaxSpot falling and
\* MaxSpot unchanged stocks, every other call answering
MaxSpot == 4

SnapshotSources ==
    {[SrcOk EXCEPT !.spot = Frame(<<S(up, 1, 3, 1), S(down, 0 - 2, 2, 1), S(flat, 0, 1, 1)>>,
                                  SpotCols)] :
        up \in 0..MaxSpot, down \in 0..MaxSpot, flat \in 0..MaxSpot}

SnapshotInit ==
    /\ akshare = TRUE
    /\ today = Days[1]
    /\ tradeDate = D20250105
    /\ src \in SnapshotSources
    /\ agg = NoAgg
    /\ dbUp = TRUE
    /\ clock = 0
    /\ autoInc = 2
    /\ table = {NewRow(SeedData(FormatDate(D20250104), 50), 1)}
    /\ pending = {}
    /\ calls = [i \in 1..NCalls |-> IdleCall]
    /\ text = <<>>
    /\ parsed = [done |-> FALSE]
    /\ SvcIdle
    /\ CrawlIdle
    /\ SseIdle

SpecSnapshot == SnapshotInit /\ [][AggNext]_vars

-----------------------------------------------------------------------------
(* The review store and its API: POST /review/create, PUT /review/update,    *)
(* DELETE /review/delete, and MarketReviewModel.create called directly.      *)

DashA == FormatDate(D20250105)
DashB == FormatDate(D20250104)

Sector1 == JStr(<<"U6DA8", "\"">>)
Sector2 == JStr(<<"a", ",", "]">>)

Stock(code, name) == JObj(<<Item(KeyDaima, code), Item(KeyMingcheng, name)>>)

StockWithSector(code, name) ==
    JObj(<<Item(KeyName, name), Item(KeyCode, code), Item(KeySector, JStr(<<>>))>>)

\* the bodies of ReviewCreateRequest (hot_sectors and notes are Optional) and
\* what the data aggregator answers while the request is served
Requests ==
    {[body |-> [hot_sectors |-> JArr(<<Sector1, Sector2>>), notes |-> JStr(<<"n">>)],
      src |-> SrcOk],
     [body |-> [hot_sectors |-> JNone, notes |-> JNone], src |-> SrcDown]}

\* records given to MarketReviewModel.create directly
DirectData ==
    {[SeedData(DashA, 7) EXCEPT
         !.four_plus_stocks = JArr(<<Stock(Code1, Name1), Stock(Code2, Name2)>>),
         !.three_board_stocks = JArr(<<Stock(Code2, Name3)>>),
         !.four_plus_stocks_with_sector =
             JArr(<<StockWithSector(Code1, Name1), StockWithSector(Code2, Name2)>>),
         !.three_board_stocks_with_sector = JArr(<<StockWithSector(Code2, Name3)>>),
         !.hot_sectors = JArr(<<Sector2, Sector1>>)],
     [date |-> DashB, limit_up_count |-> 1,
      four_plus_stocks |-> JArr(<<Stock(Code1, Name3)>>)]}

\* the payloads of update: the second is what update_review passes for a
\* request whose hot_sectors and notes are null, the third carries fields that update
\* must ignore
UpdatePayloads ==
    {[hot_sectors |-> JArr(<<Sector1>>), notes |-> JStr(<<"m">>)],
     [hot_sectors |-> JNone, notes |-> JNone],
     [notes |-> JStr(<<>>), id |-> 3, date |-> DashA, limit_up_count |-> 9,
      four_plus_stocks |-> JArr(<<Stock(Code1, Name1)>>)]}

\* a row written before the JSON columns were filled: NULL, '' and '[]'
LegacyRow ==
    [NewRow(SeedData(DashB, 50), 1) EXCEPT
        !.four_plus_stocks = None,
        !.three_board_stocks = Some(<<>>),
        !.four_plus_stocks_with_sector = None,
        !.notes = None]

StoreInit ==
    /\ akshare = TRUE
    /\ today = D20250106
    /\ tradeDate = <<>>
    /\ src = SrcOk
    /\ agg = NoAgg
    /\ dbUp = TRUE
    /\ clock = 0
    /\ \/ table = {} /\ autoInc = 1
       \/ table = {LegacyRow} /\ autoInc = 2
    /\ pending = {}
    /\ calls = [i \in 1..NCalls |-> IdleCall]
    /\ text = <<>>
    /\ parsed = [done |-> FALSE]
    /\ SvcIdle
    /\ CrawlIdle
    /\ SseIdle

Creating == {i \in 1..NCalls : calls[i].pc = "create"}

CanBegin(i) ==
    /\ calls[i].pc \in {"idle", "done"}
    /\ autoInc + Cardinality(Creating) <= MaxId

NewCall(api, date, data) ==
    [pc |-> "create", api |-> api, date |-> date, data |-> data]

\* create_review, lines 147-159: the market data of the requested date, with
\* the request's hot_sectors and notes
MarketData(date, body, s) ==
    LET market_data == get_market_review_data(StripDashes(date), s)
    IN  [k \in DOMAIN market_data \cup {"hot_sectors", "notes"} |->
            IF k = "hot_sectors" THEN body.hot_sectors
            ELSE IF k = "notes" THEN body.notes
            ELSE market_data[k]]

CreateReviewBegin(i) ==
    /\ CanBegin(i)
    /\ \E date \in {DashA, DashB}, q \in Requests :
           calls' = [calls EXCEPT ![i] = NewCall(TRUE, date, MarketData(date, q.body, q.src))]
    /\ UNCHANGED <<table, pending, autoInc, dbUp, clock>>
    /\ UNCHANGED aggVars
    /\ UNCHANGED parseVars
    /\ UNCHANGED crawlVars
    /\ UNCHANGED sseVars
    /\ UNCHANGED svcVars

DirectCreateBegin(i) ==
    /\ CanBegin(i)
    /\ \E data \in DirectData :
           calls' = [calls EXCEPT ![i] = NewCall(FALSE, data.date, data)]
    /\ UNCHANGED <<table, pending, autoInc, dbUp, clock>>
    /\ UNCHANGED aggVars
    /\ UNCHANGED parseVars
    /\ UNCHANGED crawlVars
    /\ UNCHANGED sseVars
    /\ UNCHANGED svcVars

\* the end of create and, for a request, of create_review (lines 164-173)
\* fault: the call ended in "except Exception"; status: the HTTP status of the
\* request, 400 being "a record of this date already exists"
Finished(c, ret, fault) ==
    [pc |-> "done", api |-> c.api, date |-> c.date,
     stored |-> Get(c.data, "date", <<>>),
     ret |-> ret, fault |-> fault,
     status |-> IF ~c.api THEN 0 ELSE IF ret # None THEN 200 ELSE 400]

CreateDone(i, ret, fault) ==
    calls' = [calls EXCEPT ![i] = Finished(calls[i], ret, fault)]

\* a variant of OnDuplicate that returns cursor.lastrowid all the same
OnDuplicateReturnsId(i) ==
    /\ CreateDone(i, Some(autoInc), FALSE)
    /\ autoInc' = autoInc + 1
    /\ UNCHANGED <<table, pending>>

\* a variant of OnDuplicate for REPLACE INTO in place of INSERT INTO
OnDuplicateOverwrites(i) ==
    /\ CreateDone(i, None, FALSE)
    /\ autoInc' = autoInc + 1
    /\ table' = {r \in table : r.date # Get(calls[i].data, "date", <<>>)}
                    \cup {NewRow(calls[i].data, autoInc)}
    /\ UNCHANGED pending

\* create, lines 135-137: the INSERT raised IntegrityError; the statement is
\* rolled back, the AUTO_INCREMENT value it drew is not given back
OnDuplicate(i) ==
    /\ CreateDone(i, None, FALSE)
    /\ autoInc' = autoInc + 1
    /\ UNCHANGED <<table, pending>>

\* create, lines 86-125: connect and INSERT
CreateInsert(i) ==
    /\ calls[i].pc = "create"
    /\ LET date == Get(calls[i].data, "date", <<>>)
       IN  IF ~dbUp
           THEN /\ CreateDone(i, None, TRUE)
                /\ UNCHANGED <<table, pending, autoInc>>
           ELSE IF Duplicate(date) THEN OnDuplicate(i)
           ELSE /\ ~MustWait(i, date)
                /\ pending' = pending \cup {[by |-> i, row |-> NewRow(calls[i].data, autoInc)]}
                /\ autoInc' = autoInc + 1
                /\ calls' = [calls EXCEPT ![i].pc = "commit"]
                /\ UNCHANGED table
    /\ UNCHANGED <<dbUp, clock>>
    /\ UNCHANGED aggVars
    /\ UNCHANGED parseVars
    /\ UNCHANGED crawlVars
    /\ UNCHANGED sseVars
    /\ UNCHANGED svcVars

\* create, lines 127-140: lastrowid, commit and return
CreateCommit(i) ==
    /\ calls[i].pc = "commit"
    /\ LET mine == {p \in pending : p.by = i}
           row == (CHOOSE p \in mine : TRUE).row
       IN  /\ pending' = pending \ mine
           /\ IF dbUp
              THEN /\ table' = table \cup {row}
                   /\ CreateDone(i, Some(row.id), FALSE)
              ELSE /\ table' = table
                   /\ CreateDone(i, None, TRUE)
    /\ UNCHANGED <<autoInc, dbUp, clock>>
    /\ UNCHANGED aggVars
    /\ UNCHANGED parseVars
    /\ UNCHANGED crawlVars
    /\ UNCHANGED sseVars
    /\ UNCHANGED svcVars

\* MarketReviewModel.update(review_id, review_data); rowcount counts the rows
\* that the UPDATE changed
update(review_id, review_data) ==
    LET hit == {r \in table : r.id = review_id}
        new == {UpdatedRow(r, review_data) : r \in hit}
    IN  /\ table' = IF dbUp THEN (table \ hit) \cup new ELSE table
        /\ UNCHANGED <<pending, autoInc, dbUp, clock, calls>>

\* what update returns: affected_rows > 0, and False from its except.  For
\* an UPDATE, cursor.rowcount is the number of rows that the statement changed
UpdateReturns(review_id, review_data) ==
    dbUp /\ \E r \in table : r.id = review_id /\ UpdatedRow(r, review_data) # r

\* what delete returns: affected_rows > 0, and False from its except
DeleteReturns(review_id) == dbUp /\ \E r \in table : r.id = review_id

UpdateReview ==
    /\ \E id \in 1..MaxId, data \in UpdatePayloads : update(id, data)
    /\ UNCHANGED aggVars
    /\ UNCHANGED parseVars
    /\ UNCHANGED crawlVars
    /\ UNCHANGED sseVars
    /\ UNCHANGED svcVars

RemoveReview ==
    /\ \E id \in 1..MaxId : delete(id)
    /\ UNCHANGED aggVars
    /\ UNCHANGED parseVars
    /\ UNCHANGED crawlVars
    /\ UNCHANGED sseVars
    /\ UNCHANGED svcVars

\* CURRENT_TIMESTAMP moves on
Tick ==
    /\ clock < MaxClock
    /\ clock' = clock + 1
    /\ UNCHANGED <<table, pending, autoInc, dbUp, calls>>
    /\ UNCHANGED aggVars
    /\ UNCHANGED parseVars
    /\ UNCHANGED crawlVars
    /\ UNCHANGED sseVars
    /\ UNCHANGED svcVars

\* requests are served one after the other here; SpecCreate interleaves them
StoreNext ==
    \/ CreateReviewBegin(1)
    \/ DirectCreateBegin(1)
    \/ CreateInsert(1)
    \/ CreateCommit(1)
    \/ RemoveReview
    \/ DbToggle

SpecStore == StoreInit /\ [][StoreNext]_vars

-----------------------------------------------------------------------------
(* Updates of stored records: MarketReviewModel.update                       *)

\* a store after two creates
UpdateInit ==
    /\ akshare = TRUE
    /\ today = D20250106
    /\ tradeDate = <<>>
    /\ src = SrcOk
    /\ agg = NoAgg
    /\ dbUp = TRUE
    /\ clock = 0
    /\ autoInc = 3
    /\ table \in {{LegacyRow, NewRow(d, 2)} : d \in {x \in DirectData : x.date # LegacyRow.date}}
    /\ pending = {}
    /\ calls = [i \in 1..NCalls |-> IdleCall]
    /\ text = <<>>
    /\ parsed = [done |-> FALSE]
    /\ SvcIdle
    /\ CrawlIdle
    /\ SseIdle

UpdateNext ==
    \/ UpdateReview
    \/ RemoveReview
    \/ DbToggle
    \/ Tick

SpecUpdate == UpdateInit /\ [][UpdateNext]_vars

-----------------------------------------------------------------------------
(* Concurrent calls of MarketReviewModel.create                              *)

ConcurrentData == DirectData \cup {SeedData(DashA, 9)}

CreateInit ==
    /\ akshare = TRUE
    /\ today = D20250106
    /\ tradeDate = <<>>
    /\ src = SrcOk
    /\ agg = NoAgg
    /\ dbUp = TRUE
    /\ clock = 0
    /\ autoInc = 2
    /\ table \in {{}, {LegacyRow}}
    /\ pending = {}
    /\ calls \in [1..NCalls -> {NewCall(FALSE, d.date, d) : d \in ConcurrentData}]
    /\ text = <<>>
    /\ parsed = [done |-> FALSE]
    /\ SvcIdle
    /\ CrawlIdle
    /\ SseIdle

CreateNext ==
    \/ \E i \in 1..NCalls : CreateInsert(i)
    \/ \E i \in 1..NCalls : CreateCommit(i)
    \/ DbToggle

SpecCreate == CreateInit /\ [][CreateNext]_vars

-----------------------------------------------------------------------------
(* Numeric normalizer: ThsCrawler._parse_number.  A number is m * 10^e.      *)

MaxLen == 3         \* characters of a token

Chars == {"1", "5", ".", "-", "%", "yi", "wan", ",", " ", "a"}

Texts == UNION {[1..n -> Chars] : n \in 0..MaxLen}

Num(m, e) == [m |-> m, e |-> e]

Zero == Num(0, 0)

\* str.strip()
RECURSIVE StripLeft(_)
StripLeft(t) == IF t # <<>> /\ IsWs(t[1]) THEN StripLeft(Tail(t)) ELSE t

RECURSIVE StripRight(_)
StripRight(t) == IF t # <<>> /\ IsWs(t[Len(t)])
                 THEN StripRight(SubSeq(t, 1, Len(t) - 1)) ELSE t

Strip(t) == StripRight(StripLeft(t))

\* str.replace(c, '')
Remove(t, c) == SelectSeq(t, LAMBDA x : x # c)

\* c in text
Contains(t, c) == \E i \in 1..Len(t) : t[i] = c

\* float(text) of a text over Chars: an optional sign, digits with at most one
\* point and at least one digit, white space around; anything else raises
\* ValueError
FloatOf(t) ==
    LET u == Strip(t)
        neg == u # <<>> /\ u[1] = "-"
        body == IF neg THEN Tail(u) ELSE u
        digits == Remove(body, ".")
        points == Len(body) - Len(digits)
        dot == IF points = 1 THEN CHOOSE i \in 1..Len(body) : body[i] = "." ELSE Len(body)
        valid == /\ digits # <<>>
                 /\ \A i \in 1..Len(digits) : IsDigit(digits[i])
                 /\ points <= 1
    IN  [raised |-> ~valid,
         value |-> IF valid
                   THEN Num((IF neg THEN -1 ELSE 1) * NumVal(digits), dot - Len(body))
                   ELSE Zero]

Returned(v) == [raised |-> FALSE, value |-> v]

Times(v, e) == Num(v.m, v.e + e)

ParsePercent(t) == IF t # <<>> THEN FloatOf(t) ELSE Returned(Zero)

\* lines 232-235: the ValueError of float() is caught
ParseScaled(t, e) ==
    IF t = <<>> \/ FloatOf(t).raised THEN Returned(Zero)
    ELSE Returned(Times(FloatOf(t).value, e))

parse_number(t0) ==
    IF t0 = <<>> \/ t0 = <<"-">> THEN Returned(Zero)
    ELSE LET t == Remove(Strip(t0), ",")
         IN  IF Contains(t, "%") THEN ParsePercent(Remove(t, "%"))
             ELSE IF Contains(t, "yi") THEN ParseScaled(Remove(t, "yi"), 8)
             ELSE IF Contains(t, "wan") THEN ParseScaled(Remove(t, "wan"), 4)
             ELSE ParseScaled(t, 0)

ParseInit ==
    /\ text \in Texts
    /\ parsed = [done |-> FALSE]
    /\ akshare = TRUE
    /\ today = D20250106
    /\ tradeDate = <<>>
    /\ src = SrcOk
    /\ agg = NoAgg
    /\ dbUp = TRUE
    /\ clock = 0
    /\ autoInc = 1
    /\ table = {}
    /\ pending = {}
    /\ calls = [i \in 1..NCalls |-> IdleCall]
    /\ SvcIdle
    /\ CrawlIdle
    /\ SseIdle

ParseNumber ==
    /\ ~parsed.done
    /\ parsed' = [done |-> TRUE, out |-> parse_number(text)]
    /\ text' = text
    /\ UNCHANGED storeVars
    /\ UNCHANGED aggVars
    /\ UNCHANGED svcVars
    /\ UNCHANGED crawlVars
    /\ UNCHANGED sseVars

ParseNext == ParseNumber

SpecParse == ParseInit /\ [][ParseNext]_vars

-----------------------------------------------------------------------------
(* Sector list crawler: the row loop of ThsCrawler.get_sector_list.  A row   *)
(* is the list of its cells, a cell is its text.                             *)

\* int(x) of a float m * 10^e with e <= 0: the fraction is cut off
IntOf(v) ==
    LET abs == IF v.m < 0 THEN 0 - v.m ELSE v.m
        cut == abs \div (10 ^ (0 - v.e))
    IN  IF v.m < 0 THEN 0 - cut ELSE cut

\* lines 330-338: the ValueError of float() is caught
safe_int(t) ==
    IF t = <<>> \/ t = <<"-">> THEN 0
    ELSE LET f == FloatOf(Remove(Strip(t), ","))
         IN  IF f.raised THEN 0 ELSE IntOf(f.value)

\* cols[i].get_text(strip=True)
get_text(cols, i) == Strip(cols[i])

\* the count of column i, 0 when the row has no such column
CountAt(cols, i) == IF Len(cols) >= i THEN safe_int(get_text(cols, i)) ELSE 0

\* the dict of lines 349-358
SectorDict(cols, change_pct) ==
    LET up_count == CountAt(cols, 4)
        down_count == CountAt(cols, 5)
    IN  [code |-> get_text(cols, 1),
         name |-> get_text(cols, 2),
         change_pct |-> change_pct,
         up_count |-> up_count,
         down_count |-> down_count,
         limit_up_count |-> CountAt(cols, 6),
         limit_down_count |-> CountAt(cols, 7),
         total_stocks |-> up_count + down_count]

\* one pass of the loop body, lines 320-366: what the row appends to sectors.
\* An exception of _parse_number leaves the body by the except of line 364
RowAppends(cols) ==
    IF Len(cols) < 3 THEN <<>>
    ELSE LET change_pct == parse_number(get_text(cols, 3))
         IN  IF change_pct.raised THEN <<>>
             ELSE IF get_text(cols, 1) # <<>> /\ get_text(cols, 2) # <<>>
                  THEN <<SectorDict(cols, change_pct.value)>>
                  ELSE <<>>

\* line 316: the first row is taken for the header when there is another
DataRows(rows) == IF Len(rows) > 1 THEN Tail(rows) ELSE rows

\* lines 316-371
ThsGetSectorList(rows) ==
    LET data == DataRows(rows)
    IN  Flatten([i \in 1..Len(data) |-> RowAppends(data[i])])

MaxRows == 3        \* rows of the table, the header included

RowSamples ==
    {<<>>,
     <<<<"a">>, <<"a">>, <<"a">>>>,
     <<<<"1">>, <<"a">>>>,
     <<<<"1">>, <<"a">>, <<"1", ".", "5", "%">>, <<"5">>, <<"1">>>>,
     <<<<"5">>, <<"a", " ">>, <<"-">>>>,
     <<<<"1", "5">>, <<"a">>, <<"a", "%">>, <<"5">>, <<"5">>>>,
     <<<<"5", "1">>, <<"a">>, <<"-", "1", ".", "5">>, <<"a">>, <<"1", ",", "5">>>>,
     <<<<"5", "5">>, <<"a">>, <<"1", "wan">>, <<"1", ".", "5">>, <<"-">>, <<"-", "1">>, <<"5">>>>,
     <<<<>>, <<"a">>, <<"1", "%">>, <<"5">>, <<"5">>>>,
     <<<<"1">>, <<" ">>, <<"1", "%">>, <<"5">>, <<"5">>>>}

Tables == UNION {[1..n -> RowSamples] : n \in 0..MaxRows}

CrawlInit ==
    /\ all_rows \in Tables
    /\ built = [done |-> FALSE]
    /\ akshare = TRUE
    /\ today = D20250106
    /\ tradeDate = <<>>
    /\ src = SrcOk
    /\ agg = NoAgg
    /\ dbUp = TRUE
    /\ clock = 0
    /\ autoInc = 1
    /\ table = {}
    /\ pending = {}
    /\ calls = [i \in 1..NCalls |-> IdleCall]
    /\ text = <<>>
    /\ parsed = [done |-> FALSE]
    /\ SvcIdle
    /\ SseIdle

BuildSectorList ==
    /\ ~built.done
    /\ built' = [done |-> TRUE, out |-> ThsGetSectorList(all_rows)]
    /\ all_rows' = all_rows
    /\ UNCHANGED storeVars
    /\ UNCHANGED aggVars
    /\ UNCHANGED parseVars
    /\ UNCHANGED svcVars
    /\ UNCHANGED sseVars

CrawlNext == BuildSectorList

SpecCrawl == CrawlInit /\ [][CrawlNext]_vars

-----------------------------------------------------------------------------
(* Event relay: SSEManager.  A queue is named by the id of the connection    *)
(* that made it.  The queues are unbounded, so put never waits, and send,    *)
(* broadcast, the head of connect and its finally block each run without     *)
(* giving up the event loop.                                                 *)

MaxConns == 3       \* connections ever made
MaxMessages == 2    \* messages waiting on one queue

SessionIds == {"s1", "s2"}
Messages == {"m1", "m2"}

\* a connection id that no request used yet
NoConn == [state |-> "none"]

\* a generator that ended; its queue is referred to no more
Closed == [state |-> "closed"]

\* line 31: a generator in its loop, with its empty queue
NewConn(session_id) ==
    [state |-> "open", session_id |-> session_id, queue |-> <<>>]

Live(cs) == {c \in DOMAIN cs : cs[c].state = "open"}

\* lines 34-36
Join(ss, session_id, q) ==
    [k \in DOMAIN ss \cup {session_id} |->
        IF k \in DOMAIN ss THEN (IF k = session_id THEN ss[k] \cup {q} ELSE ss[k])
        ELSE {q}]

\* a variant of Leave that keeps the session of the last connection
LeaveKeepsSession(ss, session_id, q) ==
    IF session_id \in DOMAIN ss /\ q \in ss[session_id]
    THEN [ss EXCEPT ![session_id] = @ \ {q}]
    ELSE ss

\* lines 51-56; set.remove of a queue that is not in the set raises KeyError
\* before anything is changed
Leave(ss, session_id, q) ==
    IF session_id \in DOMAIN ss /\ q \in ss[session_id]
    THEN IF ss[session_id] = {q}
         THEN [k \in DOMAIN ss \ {session_id} |-> ss[k]]
         ELSE [ss EXCEPT ![session_id] = @ \ {q}]
    ELSE ss

\* queue.put(message) on every queue of qs
PutAll(cs, qs, message) ==
    [c \in DOMAIN cs |->
        IF c \in qs THEN [cs[c] EXCEPT !.queue = Append(@, message)] ELSE cs[c]]

\* a variant of send that puts the message on the queues of every session
SendToEverySession(ss, cs, session_id, message) ==
    PutAll(cs, UNION {ss[k] : k \in DOMAIN ss}, message)

\* lines 67-75
send(ss, cs, session_id, message) ==
    IF session_id \in DOMAIN ss THEN PutAll(cs, ss[session_id], message) ELSE cs

\* lines 85-92
broadcast(ss, cs, message) == PutAll(cs, UNION {ss[k] : k \in DOMAIN ss}, message)

\* line 98
get_session_count(ss) == Cardinality(DOMAIN ss)

RECURSIVE SumOver(_, _)
SumOver(ss, keys) ==
    IF keys = {} THEN 0
    ELSE LET k == CHOOSE k \in keys : TRUE
         IN  Cardinality(ss[k]) + SumOver(ss, keys \ {k})

\* line 104
get_total_connection_count(ss) == SumOver(ss, DOMAIN ss)

\* line 44: the event of a message
Event(message) == <<"data: ", message, "\n\n">>

\* room for one more message on every queue
Room == \A c \in Live(conns) : Len(conns[c].queue) < MaxMessages

SseInit ==
    /\ sessions = <<>>
    /\ conns = [c \in 1..MaxConns |-> NoConn]
    /\ op = NoOp
    /\ akshare = TRUE
    /\ today = D20250106
    /\ tradeDate = <<>>
    /\ src = SrcOk
    /\ agg = NoAgg
    /\ dbUp = TRUE
    /\ clock = 0
    /\ autoInc = 1
    /\ table = {}
    /\ pending = {}
    /\ calls = [i \in 1..NCalls |-> IdleCall]
    /\ text = <<>>
    /\ parsed = [done |-> FALSE]
    /\ SvcIdle
    /\ CrawlIdle

SseRest ==
    /\ UNCHANGED storeVars
    /\ UNCHANGED aggVars
    /\ UNCHANGED parseVars
    /\ UNCHANGED svcVars
    /\ UNCHANGED crawlVars

\* sse_events and connect, lines 30-43: the response starts the generator,
\* which runs up to queue.get(); connections are numbered as they are made
Connect(c, session_id) ==
    /\ conns[c].state = "none"
    /\ \A b \in 1..(c - 1) : conns[b].state # "none"
    /\ sessions' = Join(sessions, session_id, c)
    /\ conns' = [conns EXCEPT ![c] = NewConn(session_id)]
    /\ op' = [name |-> "connect"]
    /\ SseRest

\* connect, lines 43-44: queue.get() returns the oldest message and the
\* generator yields its event
Yield(c) ==
    /\ conns[c].state = "open"
    /\ conns[c].queue # <<>>
    /\ conns' = [conns EXCEPT ![c].queue = Tail(@)]
    /\ op' = [name |-> "yield", conn |-> c, event |-> Event(Head(conns[c].queue))]
    /\ UNCHANGED sessions
    /\ SseRest

\* the client went away: the generator, waiting at line 43 or 44, is
\* cancelled or closed and runs lines 45-56
Disconnect(c) ==
    /\ conns[c].state = "open"
    /\ sessions' = Leave(sessions, conns[c].session_id, c)
    /\ conns' = [conns EXCEPT ![c] = Closed]
    /\ op' = [name |-> "disconnect"]
    /\ SseRest

Send(session_id, message) ==
    /\ Room
    /\ conns' = send(sessions, conns, session_id, message)
    /\ op' = [name |-> "send", session_id |-> session_id, message |-> message]
    /\ UNCHANGED sessions
    /\ SseRest

Broadcast(message) ==
    /\ Room
    /\ conns' = broadcast(sessions, conns, message)
    /\ op' = [name |-> "broadcast", message |-> message]
    /\ UNCHANGED sessions
    /\ SseRest

SseNext ==
    \/ \E c \in 1..MaxConns, session_id \in SessionIds : Connect(c, session_id)
    \/ \E c \in 1..MaxConns : Yield(c)
    \/ \E c \in 1..MaxConns : Disconnect(c)
    \/ \E session_id \in SessionIds, message \in Messages : Send(session_id, message)
    \/ \E message \in Messages : Broadcast(message)

SpecSse == SseInit /\ [][SseNext]_vars

-----------------------------------------------------------------------------
(* Sentiment scorer: MarketService.get_market_emotion.  A score is kept as   *)
(* the exact fraction n / d, a number rounded to 2 decimals in hundredths,   *)
(* and so is a sector's change_pct.  The cycle labels are written in pinyin: *)
(* "shangshengqi" (rising), "huoyue" (active), "zhendang" (choppy),          *)
(* "tuichaoqi" (receding), "bingdianqi" (freezing), "weizhi" (unknown).      *)

Min0(a, b) == IF a <= b THEN a ELSE b

\* round(n / d, 2) for n >= 0, d > 0, in hundredths; the quotient is taken
\* exactly, as in RoundPct
Round2(n, d) == RoundPct(n, d)

\* SectorService.get_sector_list: the crawler's list, and the empty list when
\* the crawler raised
get_sector_list(l) == IF l.ok THEN l.v ELSE <<>>

\* a variant of SectorTerm that also adjusts at exactly 60% and exactly 40%
SectorTermAtThreshold(secs) ==
    LET up_sectors == SelectSeq(secs, LAMBDA s : s.change_pct > 0)
    IN  IF secs = <<>> THEN 0
        ELSE IF 5 * Len(up_sectors) >= 3 * Len(secs) THEN 10
        ELSE IF 5 * Len(up_sectors) <= 2 * Len(secs) THEN 0 - 10
        ELSE 0

\* the sector breadth adjustment: more than 60% of the sectors up, or fewer
\* than 40%
SectorTerm(secs) ==
    LET up_sectors == SelectSeq(secs, LAMBDA s : s.change_pct > 0)
    IN  IF secs = <<>> THEN 0
        ELSE IF 5 * Len(up_sectors) > 3 * Len(secs) THEN 10
        ELSE IF 5 * Len(up_sectors) < 2 * Len(secs) THEN 0 - 10
        ELSE 0

\* the score before the clamp
Score(statistics, secs) ==
    LET total_stocks == statistics.total_stocks
        d == IF total_stocks > 0 THEN total_stocks ELSE 1
        breadth == IF total_stocks > 0
                   THEN 40 * statistics.up_count - 20 * total_stocks ELSE 0
        limits == IF total_stocks > 0
                  THEN 30 * (statistics.limit_up_count - statistics.limit_down_count)
                  ELSE 0
    IN  [n |-> 50 * d + breadth + limits + SectorTerm(secs) * d, d |-> d]

\* a variant of Clamp that leaves the score as it is
ClampNothing(x) == x

\* max(0, min(100, emotion_score))
Clamp(x) == [x EXCEPT !.n = Max0(0, Min0(100 * x.d, x.n))]

\* the cycle of a score n / d
Cycle(x) ==
    IF x.n >= 75 * x.d THEN "shangshengqi"
    ELSE IF x.n >= 60 * x.d THEN "huoyue"
    ELSE IF x.n >= 40 * x.d THEN "zhendang"
    ELSE IF x.n >= 25 * x.d THEN "tuichaoqi"
    ELSE "bingdianqi"

\* the record of the except branch
DegradedEmotion ==
    [date |-> TodayDashed, emotion_score |-> 5000, emotion_cycle |-> "weizhi"]

\* st: what crawler.get_market_statistics() does, its dict or an exception;
\* l: what crawler.get_sector_list() does
get_market_emotion(st, l) ==
    IF ~st.ok THEN DegradedEmotion
    ELSE LET statistics == st.v
             emotion_score == Clamp(Score(statistics, get_sector_list(l)))
         IN  [date |-> TodayDashed,
              total_stocks |-> statistics.total_stocks,
              up_count |-> statistics.up_count,
              down_count |-> statistics.down_count,
              flat_count |-> statistics.flat_count,
              limit_up_count |-> statistics.limit_up_count,
              limit_down_count |-> statistics.limit_down_count,
              emotion_score |-> Round2(emotion_score.n, emotion_score.d),
              emotion_cycle |-> Cycle(emotion_score)]

\* the longest sector list
MaxSectors == 2

Returns(v) == [ok |-> TRUE, v |-> v]

Statistics(total, up, down, flat, limit_up, limit_down) ==
    [total_stocks |-> total, up_count |-> up, down_count |-> down,
     flat_count |-> flat, limit_up_count |-> limit_up, limit_down_count |-> limit_down]

\* the crawler in src fills every count with 0 (its parsing of the page is
\* left open); the scorer takes whatever counts the dict holds
StatisticsSamples ==
    {Statistics(0, 0, 0, 0, 0, 0),
     Statistics(0, 5, 5, 0, 1, 1),
     Statistics(1000, 700, 300, 0, 50, 5),
     Statistics(1000, 500, 500, 0, 0, 0),
     Statistics(3, 1, 2, 0, 0, 0),
     Statistics(10000, 8749, 1251, 0, 0, 0),
     Statistics(10000, 8750, 1250, 0, 0, 0),
     Statistics(10000, 8748, 1252, 0, 0, 0),
     Statistics(100, 500, 0, 0, 300, 0),
     Statistics(100, 0, 500, 0, 0, 300)}

SectorOf(change_pct) == [change_pct |-> change_pct]

\* lists of 5 sectors with exactly 60%, exactly 40% and 80% of them up
FiveSectors ==
    {<<SectorOf(250), SectorOf(30), SectorOf(1), SectorOf(0), SectorOf(0 - 120)>>,
     <<SectorOf(0 - 120), SectorOf(250), SectorOf(0), SectorOf(30), SectorOf(0 - 1)>>,
     <<SectorOf(250), SectorOf(30), SectorOf(1), SectorOf(40), SectorOf(0 - 120)>>}

SectorLists ==
    FiveSectors \cup
    UNION {[1..n -> {SectorOf(0 - 120), SectorOf(0), SectorOf(250)}] : n \in 0..MaxSectors}

EmotionInit ==
    /\ stats \in {Raised} \cup {Returns(v) : v \in StatisticsSamples}
    /\ listed \in {Raised} \cup {Returns(v) : v \in SectorLists}
    /\ emotion = [done |-> FALSE]
    /\ sectors = <<>>
    /\ rotation = [done |-> FALSE]
    /\ text = <<>>
    /\ parsed = [done |-> FALSE]
    /\ CrawlIdle
    /\ SseIdle
    /\ akshare = TRUE
    /\ today = D20250106
    /\ tradeDate = <<>>
    /\ src = SrcOk
    /\ agg = NoAgg
    /\ dbUp = TRUE
    /\ clock = 0
    /\ autoInc = 1
    /\ table = {}
    /\ pending = {}
    /\ calls = [i \in 1..NCalls |-> IdleCall]

\* GET /emotion
GetMarketEmotion ==
    /\ ~emotion.done
    /\ emotion' = [done |-> TRUE, out |-> get_market_emotion(stats, listed)]
    /\ UNCHANGED <<stats, listed, sectors, rotation>>
    /\ UNCHANGED storeVars
    /\ UNCHANGED aggVars
    /\ UNCHANGED parseVars
    /\ UNCHANGED crawlVars
    /\ UNCHANGED sseVars

EmotionNext == GetMarketEmotion

SpecEmotion == EmotionInit /\ [][EmotionNext]_vars

-----------------------------------------------------------------------------
(* Sector rotation analyzer: SectorService.analyze_sector_rotation.  A       *)
(* sector's change_pct and an entry's hot_score are kept in hundredths; the  *)
(* hot_score before rounding is the exact fraction n / d.                    *)

\* a variant of HotScore without the caps of 50 and 30
HotScoreUncapped(sector) ==
    LET rise == IF sector.change_pct > 0 THEN sector.change_pct * 10 ELSE 0
        limits == IF sector.limit_up_count > 0 THEN 100 * sector.limit_up_count * 5 ELSE 0
    IN  IF sector.up_count > 0 /\ sector.total_stocks > 0
        THEN [n |-> (rise + limits) * sector.total_stocks + 100 * 20 * sector.up_count,
              d |-> 100 * sector.total_stocks]
        ELSE [n |-> rise + limits, d |-> 100]

\* the three contributions, summed; d is 100 or 100 * total_stocks
HotScore(sector) ==
    LET change_pct == Get(sector, "change_pct", 0)
        limit_up_count == Get(sector, "limit_up_count", 0)
        up_count == Get(sector, "up_count", 0)
        total_stocks == Get(sector, "total_stocks", 1)
        rise == IF change_pct > 0 THEN Min0(change_pct * 10, 50 * 100) ELSE 0
        limits == IF limit_up_count > 0 THEN 100 * Min0(limit_up_count * 5, 30) ELSE 0
        ratio == up_count > 0 /\ total_stocks > 0
    IN  IF ratio
        THEN [n |-> (rise + limits) * total_stocks + 100 * 20 * up_count,
              d |-> 100 * total_stocks]
        ELSE [n |-> rise + limits, d |-> 100]

\* the entry appended for a sector
RotationEntry(sector) ==
    LET hot_score == HotScore(sector)
        change_pct == Get(sector, "change_pct", 0)
        limit_up_count == Get(sector, "limit_up_count", 0)
    IN  [code |-> sector.code,
         name |-> sector.name,
         hot_score |-> Round2(hot_score.n, hot_score.d),
         momentum |-> IF hot_score.n >= 70 * hot_score.d THEN "strong"
                      ELSE IF hot_score.n >= 40 * hot_score.d THEN "medium"
                      ELSE "weak",
         rotation_trend |-> IF change_pct > 3 * 100 /\ limit_up_count > 5 THEN "in"
                            ELSE IF change_pct < 0 - 3 * 100 THEN "out"
                            ELSE "stable",
         change_pct |-> change_pct,
         limit_up_count |-> limit_up_count]

\* a variant of InsertByHotScore that puts an entry before the entries of the
\* same hot_score
InsertBeforeEqual(e, sorted) ==
    SelectSeq(sorted, LAMBDA x : x.hot_score > e.hot_score) \o <<e>>
        \o SelectSeq(sorted, LAMBDA x : x.hot_score <= e.hot_score)

\* list.sort(key=hot_score, reverse=True) keeps the entries of one hot_score in
\* the order they had: an entry goes behind the entries that are not below it
InsertByHotScore(e, sorted) ==
    SelectSeq(sorted, LAMBDA x : x.hot_score >= e.hot_score) \o <<e>>
        \o SelectSeq(sorted, LAMBDA x : x.hot_score < e.hot_score)

RECURSIVE SortByHotScore(_)
SortByHotScore(entries) ==
    IF entries = <<>> THEN <<>>
    ELSE InsertByHotScore(entries[Len(entries)],
                          SortByHotScore(SubSeq(entries, 1, Len(entries) - 1)))

analyze_sector_rotation(secs) ==
    SortByHotScore([i \in 1..Len(secs) |-> RotationEntry(secs[i])])

\* the longest list given to the analyzer
MaxRotation == 3

SectorRecord(code, change_pct, limit_up_count, up_count, total_stocks) ==
    [code |-> code, name |-> code, change_pct |-> change_pct,
     limit_up_count |-> limit_up_count, up_count |-> up_count,
     total_stocks |-> total_stocks]

SectorSamples ==
    {SectorRecord("881101", 500, 10, 80, 100),
     SectorRecord("881102", 100, 0, 1, 3),
     SectorRecord("881103", 100, 0, 5, 0),
     SectorRecord("881104", 0 - 400, 0, 0, 50),
     SectorRecord("881105", 100, 0, 0, 10),
     SectorRecord("881106", 700, 6, 40, 40),
     SectorRecord("881107", 390, 6, 10, 201)}

\* the lists of distinct sectors
SectorArgs ==
    {s \in UNION {[1..n -> SectorSamples] : n \in 0..MaxRotation} :
        \A i, j \in 1..Len(s) : i # j => s[i] # s[j]}

RotationInit ==
    /\ sectors \in SectorArgs
    /\ rotation = [done |-> FALSE]
    /\ stats = Raised
    /\ listed = Raised
    /\ emotion = [done |-> FALSE]
    /\ text = <<>>
    /\ parsed = [done |-> FALSE]
    /\ CrawlIdle
    /\ SseIdle
    /\ akshare = TRUE
    /\ today = D20250106
    /\ tradeDate = <<>>
    /\ src = SrcOk
    /\ agg = NoAgg
    /\ dbUp = TRUE
    /\ clock = 0
    /\ autoInc = 1
    /\ table = {}
    /\ pending = {}
    /\ calls = [i \in 1..NCalls |-> IdleCall]

AnalyzeSectorRotation ==
    /\ ~rotation.done
    /\ rotation' = [done |-> TRUE, out |-> analyze_sector_rotation(sectors)]
    /\ UNCHANGED <<stats, listed, emotion, sectors>>
    /\ UNCHANGED storeVars
    /\ UNCHANGED aggVars
    /\ UNCHANGED parseVars
    /\ UNCHANGED crawlVars
    /\ UNCHANGED sseVars

RotationNext == AnalyzeSectorRotation

SpecRotation == RotationInit /\ [][RotationNext]_vars

-----------------------------------------------------------------------------
(* Claims about the aggregator, under SpecAgg                                *)

Called == agg.outs # <<>>

LastOut == agg.outs[Len(agg.outs)]

ReviewFields ==
    {"date", "volume", "red_count", "green_count", "limit_up_count",
     "limit_down_count", "zt_count", "zt_rate", "total_continuous_limit",
     "continuous_limit_rate", "four_plus_count", "four_plus_stocks",
     "two_board_count", "three_board_count", "three_board_stocks", "total_stocks",
     "red_rate", "market_strength", "max_continuous_days", "first_board_count",
     "three_board_stocks_with_sector", "four_plus_stocks_with_sector"}

\* the fields that belong to the sub-metric of a Row Source call
SubMetric(call) ==
    IF call = "dt" THEN {"limit_down_count"}
    ELSE IF call = "zt3"
    THEN {"total_continuous_limit", "two_board_count", "three_board_count",
          "four_plus_count", "four_plus_stocks", "three_board_stocks",
          "max_continuous_days", "first_board_count", "continuous_limit_rate",
          "three_board_stocks_with_sector", "four_plus_stocks_with_sector"}
    ELSE IF call = "spot"
    THEN {"total_stocks", "red_count", "green_count", "volume", "red_rate",
          "market_strength", "continuous_limit_rate"}
    ELSE {"zt_count", "zt_rate"}

ClaimedCalls == {"dt", "zt3", "spot", "zb"}

OnlyFailure(call) ==
    /\ ~src[call].ok
    /\ \A other \in {"zt1", "dt", "zt3", "spot", "zb", "zt5"} \ {call} : src[other].ok

\* the responses the failed call could have given instead
Responses(call) == {f \in {s[call] : s \in AllSources} : f.ok /\ NonEmpty(f)}

\* C1: when exactly one of the limit-down, consecutive-board, snapshot and
\* burst pool calls fails, every field outside that call's sub-metric has the
\* value it has without the failure, and the result is not the fallback record.
C1_FailureIsolated ==
    (Called /\ agg.fresh /\ akshare) =>
        \A call \in ClaimedCalls :
            OnlyFailure(call) =>
                /\ LastOut.date = FormatDate(TradeDateUsed)
                /\ \A f \in Responses(call) :
                       LET ref == get_market_review_data(tradeDate, [src EXCEPT ![call] = f])
                       IN  \A k \in ReviewFields \ SubMetric(call) : LastOut[k] = ref[k]

\* C4: with the data aggregator available, the record of a call for trade
\* date D (YYYYMMDD) is dated D rewritten as YYYY-MM-DD.
C4_DateReformatted ==
    (akshare /\ tradeDate # <<>>) =>
        \A i \in 1..Len(agg.outs) : agg.outs[i].date = FormatDate(tradeDate)

InScenario ==
    /\ akshare
    /\ src.zt1 = Pool50
    /\ src.dt = Down5
    /\ src.zt3 = Pool3
    /\ src.spot = Spot4000

ScenarioCounts(r) ==
    /\ r.limit_up_count = 50
    /\ r.limit_down_count = 5
    /\ r.total_continuous_limit = 3
    /\ r.two_board_count = 1
    /\ r.three_board_count = 1
    /\ r.four_plus_count = 1
    /\ r.max_continuous_days = 5
    /\ r.red_count = 2500
    /\ r.total_stocks = 4000
    /\ r.first_board_count = 47

\* C5 as stated: in the end-to-end scenario red_rate is 63 and market_strength
\* is slightly strong.
C5_ScenarioAsStated ==
    InScenario =>
        \A i \in 1..Len(agg.outs) :
            /\ ScenarioCounts(agg.outs[i])
            /\ agg.outs[i].red_rate = 63
            /\ agg.outs[i].market_strength = "pianqiang"

\* C5 amended: in the end-to-end scenario the counts are as stated, red_rate is
\* 62 (round(62.5) rounds the half to the even number) and market_strength is
\* strong (0.625 >= 0.6).
C5_Scenario ==
    InScenario =>
        \A i \in 1..Len(agg.outs) :
            /\ ScenarioCounts(agg.outs[i])
            /\ agg.outs[i].red_rate = 62
            /\ agg.outs[i].market_strength = "qiang"

C5_Witness == InScenario /\ Called /\ LastOut.limit_up_count = 50

-----------------------------------------------------------------------------
(* Claims about the store, under SpecCreate, SpecStore and SpecUpdate        *)

DateOf(i) == IF calls[i].pc = "done" THEN calls[i].stored
             ELSE Get(calls[i].data, "date", <<>>)

Winners(Cs) == {i \in Cs : calls[i].pc = "done" /\ calls[i].ret # None}

\* C2: of the concurrent create calls that carry one date, started on a store
\* without a record of that date, exactly one returns an id and the others
\* return None; no two stored records have the same date.
C2_OneWinner ==
    /\ \A r1, r2 \in table : r1.date = r2.date => r1 = r2
    /\ \A d \in {DateOf(i) : i \in 1..NCalls} :
           LET Cs == {i \in 1..NCalls : DateOf(i) = d}
           IN  (~(LegacyRow \in table /\ d = LegacyRow.date)
                   /\ \A i \in Cs : calls[i].pc = "done") =>
                   /\ Cardinality(Winners(Cs)) <= 1
                   /\ (\A i \in Cs : ~calls[i].fault) => Cardinality(Winners(Cs)) = 1
                   /\ \A i \in Winners(Cs) :
                          \E r \in table : r.id = calls[i].ret[1] /\ r.date = d

C2_Witness ==
    /\ \A i \in 1..NCalls : calls[i].pc = "done" /\ ~calls[i].fault
                            /\ calls[i].stored = DashA
    /\ Cardinality(Winners(1..NCalls)) = 1

\* C3: a create for a date that has a stored record returns None and leaves
\* every stored record as it is.
C3_DuplicateRejected ==
    [][\A i \in 1..NCalls :
          (/\ calls[i].pc = "create"
           /\ calls'[i] # calls[i]
           /\ \E r \in table : r.date = Get(calls[i].data, "date", <<>>))
          => (/\ calls'[i].pc = "done"
              /\ calls'[i].ret = None
              /\ table' = table
              /\ pending' = pending)]_vars

C3_Witness ==
    \E i \in 1..NCalls :
        /\ calls[i].pc = "done"
        /\ calls[i].ret = None
        /\ ~calls[i].fault
        /\ \E r \in table : r.date = calls[i].stored /\ r.hot_sectors # Some(<<"[", "]">>)

ListFields ==
    {"four_plus_stocks", "three_board_stocks", "hot_sectors",
     "three_board_stocks_with_sector", "four_plus_stocks_with_sector"}

EmptyTexts == {None, Some(<<>>), Some(<<"[", "]">>)}

MaxList == 2        \* stocks of a sample list

StockLists ==
    UNION {[1..n -> {Stock(c, nm) : c \in {Code1, Code2}, nm \in {Name1, Name2, Name3}}] :
              n \in 0..MaxList}

\* the column text written for a list reads back as the list
ListsRoundTrip ==
    \A L \in StockLists : parse_json_field(Some(JsonDumps(JArr(L)))) = JArr(L)

\* C7: the lists of a created record read back from get_by_date as they were
\* given (a list that was not given reads back empty), every list of stock
\* objects reads back from its column text as it was, and a stored NULL, ''
\* or '[]' reads back as the empty list.
C7_RoundTrip ==
    /\ []ListsRoundTrip
    /\ [](\A r \in table : \A k \in ListFields :
             r[k] \in EmptyTexts => row_to_dict(r)[k] = JArr(<<>>))
    /\ [][\A i \in 1..NCalls :
             (calls[i].pc = "commit" /\ calls'[i].pc = "done" /\ calls'[i].ret # None)
             => LET d == calls[i].data
                    rec == GetByDateIn(table', dbUp', d.date)
                IN  /\ rec # None
                    /\ rec[1].id = calls'[i].ret[1]
                    /\ \A k \in ListFields :
                           IF k \in DOMAIN d
                           THEN d[k].t = "arr" => rec[1][k] = d[k]
                           ELSE rec[1][k] = JArr(<<>>)]_vars

C7_Witness ==
    /\ \E r \in table :
           /\ r.date = DashA
           /\ parse_json_field(r.four_plus_stocks)
                  = JArr(<<Stock(Code1, Name1), Stock(Code2, Name2)>>)
           /\ parse_json_field(r.hot_sectors) = JArr(<<Sector2, Sector1>>)
    /\ LegacyRow \in table

SameButNotes(r, r2) ==
    \A k \in DOMAIN r \ {"hot_sectors", "notes", "updated_at"} : r2[k] = r[k]

\* C8: update(id, data) changes nothing but the hot_sectors, notes and
\* updated_at of the record with that id, whatever fields data carries.
C8_UpdateFrame ==
    [][\A id \in 1..MaxId : \A data \in UpdatePayloads :
          update(id, data) =>
              /\ \A r \in table : r.id # id => r \in table'
              /\ \A r2 \in table' :
                     r2 \notin table =>
                         /\ r2.id = id
                         /\ \E r \in table : r.id = id /\ SameButNotes(r, r2)
              /\ Cardinality(table') = Cardinality(table)]_vars

C8_Witness ==
    /\ Cardinality(table) = 2
    /\ \E r \in table : r.notes = Some(<<"m">>) /\ r.updated_at > r.created_at
                        /\ r.limit_up_count # 9

\* C9: create returns None only when a record of the same date is stored, so
\* that create_review answers "the record already exists" only then.
C9_NoneOnlyOnDuplicate ==
    [][\A i \in 1..NCalls :
          (/\ calls[i].pc \in {"create", "commit"}
           /\ calls'[i].pc = "done"
           /\ calls'[i].ret = None)
          => \E r \in table : r.date = calls'[i].stored]_vars

-----------------------------------------------------------------------------
(* Claims about the numeric normalizer, under SpecParse                      *)

\* what is left of the token without white space, separators and markers
Remainder(t) == Remove(Remove(Remove(Remove(Remove(t, " "), ","), "%"), "yi"), "wan")

\* C10: _parse_number never raises, and a token whose remainder is no number
\* yields 0.0.
C10_Total ==
    parsed.done =>
        /\ ~parsed.out.raised
        /\ FloatOf(Remainder(text)).raised => parsed.out.value.m = 0


-----------------------------------------------------------------------------
(* Claims about the sentiment scorer, under SpecEmotion                      *)

Scored == emotion.done /\ stats.ok

\* C11: every MarketEmotion that get_market_emotion returns has an
\* emotion_score from 0 to 100, whatever the counts of the statistics
\* (counts above total_stocks too) and whatever the sector list
C11_ScoreInRange ==
    emotion.done => emotion.out.emotion_score >= 0 /\ emotion.out.emotion_score <= 100 * 100

\* a score was returned whose sum before the clamp lies above 100, the counts
\* exceeding total_stocks
C11_Witness ==
    /\ Scored
    /\ stats.v.up_count > stats.v.total_stocks
    /\ LET x == Score(stats.v, get_sector_list(listed)) IN x.n > 100 * x.d
    /\ emotion.out.emotion_score = 100 * 100

\* the class of a returned score, which is in hundredths
ClassOf(emotion_score) == Cycle([n |-> emotion_score, d |-> 100])

C13_DegradedOnFetchFailure ==
    emotion.done /\ (~stats.ok \/ ~listed.ok) => emotion.out = DegradedEmotion

-----------------------------------------------------------------------------
(* Claims about the sector rotation analyzer, under SpecRotation             *)

\* where the sector of an entry stands in the argument
PlaceOf(e) == CHOOSE i \in 1..Len(sectors) : sectors[i].code = e.code

\* C14: analyze_sector_rotation returns its entries in non-increasing order of
\* hot_score, one entry for each sector, and entries of equal hot_score stand
\* in the order of their sectors in the argument
C14_SortedAndStable ==
    rotation.done =>
        /\ Len(rotation.out) = Len(sectors)
        /\ \A i \in 1..Len(sectors) : \E j \in 1..Len(rotation.out) :
              rotation.out[j].code = sectors[i].code
        /\ \A i, j \in 1..Len(rotation.out) : i < j =>
              /\ rotation.out[i].hot_score >= rotation.out[j].hot_score
              /\ rotation.out[i].hot_score = rotation.out[j].hot_score
                    => PlaceOf(rotation.out[i]) < PlaceOf(rotation.out[j])

\* a sector of lower hot_score came first and was moved behind two sectors of
\* one hot_score, which kept their order
C14_Witness ==
    /\ rotation.done
    /\ Len(sectors) = 3
    /\ rotation.out[1].hot_score = rotation.out[2].hot_score
    /\ rotation.out[2].hot_score > rotation.out[3].hot_score
    /\ PlaceOf(rotation.out[3]) = 1
    /\ PlaceOf(rotation.out[1]) = 2
    /\ PlaceOf(rotation.out[2]) = 3

\* the three terms of the hot_score of a sector, in hundredths: n / d
ClaimedTerms(s) ==
    LET a == IF s.change_pct > 0
             THEN (IF s.change_pct * 10 <= 5000 THEN s.change_pct * 10 ELSE 5000) ELSE 0
        b == IF s.limit_up_count > 0
             THEN (IF s.limit_up_count * 5 <= 30 THEN s.limit_up_count * 500 ELSE 3000) ELSE 0
    IN  IF s.up_count > 0 /\ s.total_stocks > 0
        THEN [n |-> (a + b) * s.total_stocks + 2000 * s.up_count, d |-> s.total_stocks]
        ELSE [n |-> a + b, d |-> 1]

EntryOf(s) == CHOOSE e \in {rotation.out[i] : i \in 1..Len(rotation.out)} : e.code = s.code

Example96 == SectorRecord("881101", 500, 10, 80, 100)

ExampleAsStated(s) ==
    s = Example96 =>
        /\ EntryOf(s).hot_score = 96 * 100
        /\ EntryOf(s).momentum = "strong"
        /\ EntryOf(s).rotation_trend = "in"

\* C17: the hot_score that analyze_sector_rotation computes for a sector is
\* the sum of min(change_pct*10, 50) when change_pct > 0,
\* min(limit_up_count*5, 30) when limit_up_count > 0 and
\* (up_count/total_stocks)*20 when up_count > 0 and total_stocks > 0, a term
\* being 0 otherwise, also for total_stocks 0; the entry carries that sum
\* rounded to 2 decimals, and the example sector has hot_score 96, strong, in
C17_HotScoreIsSum ==
    rotation.done =>
        \A i \in 1..Len(sectors) :
            /\ HotScore(sectors[i]).n = ClaimedTerms(sectors[i]).n
            /\ HotScore(sectors[i]).d = 100 * ClaimedTerms(sectors[i]).d
            /\ EntryOf(sectors[i]).hot_score
                  = Round2(ClaimedTerms(sectors[i]).n, 100 * ClaimedTerms(sectors[i]).d)
            /\ ExampleAsStated(sectors[i])

\* the analyzer was given the example sector, a sector whose sum has more than
\* 2 decimals and a sector of total_stocks 0 with stocks up
C17_Witness ==
    /\ rotation.done
    /\ \E i \in 1..Len(sectors) : sectors[i] = Example96
    /\ \E i \in 1..Len(sectors) :
          /\ sectors[i].total_stocks = 0 /\ sectors[i].up_count > 0
          /\ EntryOf(sectors[i]).hot_score = 10 * 100
    /\ \E i \in 1..Len(sectors) :
          ClaimedTerms(sectors[i]).n % ClaimedTerms(sectors[i]).d # 0

-----------------------------------------------------------------------------
(* Claims about the fallback and the derived fields of the aggregator,       *)
(* under SpecAgg                                                             *)

\* the pipeline as a whole cannot run: the data aggregator is not installed, or
\* the body of get_market_review_data ends in its outer except
CannotRun == ~akshare \/ ReviewBody(tradeDate, src).raised

NumberFields ==
    ReviewFields \ {"date", "market_strength", "four_plus_stocks", "three_board_stocks",
                    "three_board_stocks_with_sector", "four_plus_stocks_with_sector"}

\* C15: get_market_review_data raises nothing; when the data aggregator is
\* unavailable or the pipeline as a whole cannot run, it returns a record dated
\* today whose counts and rates are all 0, whose market_strength is the empty
\* string and whose lists are all empty
C15_ZeroRecordOfToday ==
    CannotRun =>
        \A k \in 1..Len(agg.outs) :
            /\ DOMAIN agg.outs[k] = ReviewFields
            /\ agg.outs[k].date = FormatDate(agg.envs[k].today)
            /\ \A f \in NumberFields : agg.outs[k][f] = 0
            /\ agg.outs[k].market_strength = ""
            /\ \A f \in ReviewFields \ (NumberFields \cup {"date", "market_strength"}) :
                   agg.outs[k][f] = JArr(<<>>)

\* the aggregator was asked for another day than today while the data
\* aggregator is not installed, and was asked again on the next day
C15_Witness ==
    /\ ~akshare
    /\ tradeDate = D20250105
    /\ Len(agg.outs) = 2
    /\ agg.outs[1].date = FormatDate(Days[1])
    /\ agg.outs[2].date = FormatDate(Days[2])

-----------------------------------------------------------------------------
(* Claims about update and delete, under SpecUpdate                          *)

Stored(id) == \E r \in table : r.id = id

\* C16: delete(id) and update(id, data) return true exactly when a record with
\* that id is stored (and false, changing nothing, for a missing id)
C16_TrueIffStored ==
    \A id \in 1..MaxId :
        /\ DeleteReturns(id) <=> Stored(id)
        /\ \A data \in UpdatePayloads : UpdateReturns(id, data) <=> Stored(id)

-----------------------------------------------------------------------------
(* Claims about the derived fields of the aggregator, under SpecAgg          *)

\* the limit_up_count that the store held, at call k, for the calendar day
\* before the trade date; 0 when it held no such record
PreviousCount(k) ==
    LET d == IF tradeDate = <<>> THEN agg.envs[k].today ELSE tradeDate
    IN  IF Strptime(d).ok /\ agg.envs[k].prev # {}
        THEN CHOOSE p \in agg.envs[k].prev : TRUE
        ELSE 0

\* C18: continuous_limit_rate is round(total_continuous_limit / P * 100), P
\* being the limit_up_count of the stored record of the calendar day before
\* the trade date, when that record exists and P > 0; otherwise it is
\* round(total_continuous_limit / total_stocks * 100), and 0 when total_stocks
\* is 0 as well
C18_RateWithFallback ==
    \A k \in 1..Len(agg.outs) :
        LET r == agg.outs[k]
        IN  r.continuous_limit_rate =
                IF PreviousCount(k) > 0
                THEN RoundPct(r.total_continuous_limit, PreviousCount(k))
                ELSE IF r.total_stocks > 0
                THEN RoundPct(r.total_continuous_limit, r.total_stocks)
                ELSE 0

\* C19: in every record the aggregator returns, first_board_count is
\* max(0, limit_up_count - total_continuous_limit), whatever the two counts
\* are; it is limit_up_count when total_continuous_limit is 0
C19_FirstBoardCount ==
    \A k \in 1..Len(agg.outs) :
        agg.outs[k].first_board_count
            = Max0(0, agg.outs[k].limit_up_count - agg.outs[k].total_continuous_limit)

\* the calls of step 5 went through: the burst pool answered and, when it was
\* empty, the limit-up pool answered too
BurstAnswered == src.zb.ok /\ (NonEmpty(src.zb) \/ src.zt5.ok)

\* the limit-up-pool rows whose burst count is above 0
BurstRows ==
    IF "zhabancishu" \in src.zt5.cols
    THEN SumSeq([i \in 1..Len(src.zt5.rows) |->
                    IF src.zt5.rows[i].burst > 0 THEN src.zt5.rows[i].cnt ELSE 0])
    ELSE 0

ClaimedBurst(r) ==
    /\ r.zt_count = IF NonEmpty(src.zb) THEN FrameLen(src.zb) ELSE BurstRows
    /\ r.zt_rate = IF r.zt_count + r.limit_up_count = 0 THEN 0
                   ELSE RoundPct(r.zt_count, r.zt_count + r.limit_up_count)
    /\ r.zt_rate >= 0 /\ r.zt_rate <= 100

\* C20: in every record the aggregator returns, zt_count is the size of the
\* burst pool when that pool has rows, and otherwise the number of limit-up-pool
\* rows with a burst count above 0; zt_rate is
\* round(zt_count / (zt_count + limit_up_count) * 100), and 0 when that sum is
\* 0, so zt_rate lies between 0 and 100
C20_BurstCountAndRate ==
    (akshare /\ BurstAnswered) => \A k \in 1..Len(agg.outs) : ClaimedBurst(agg.outs[k])

\* the same for the calls that do not end in the outer except
BurstAsClaimedOutsideFallback ==
    (akshare /\ BurstAnswered /\ ~ReviewBody(tradeDate, src).raised)
        => \A k \in 1..Len(agg.outs) : ClaimedBurst(agg.outs[k])

-----------------------------------------------------------------------------
(* Claims about the steps of the aggregator, under SpecAgg                   *)

\* the consecutive-board pool answered with a frame that has its columns
PoolAnswered ==
    /\ akshare
    /\ src.zt3.ok
    /\ {"daima", "mingcheng", "lianbanshu"} \subseteq src.zt3.cols

\* the number of rows in these row groups
RowCount(groups) == SumSeq([i \in 1..Len(groups) |-> groups[i].cnt])

\* the code and name of every row in these row groups, in row order
CodeAndName(groups) ==
    JArr(Flatten([i \in 1..Len(groups) |->
                     [j \in 1..groups[i].cnt |->
                         JObj(<<Item(KeyDaima, groups[i].code),
                                Item(KeyMingcheng, groups[i].name)>>)]]))

BoardCounts(r) ==
    LET rows == src.zt3.rows
        two == SelectSeq(rows, LAMBDA g : g.boards = 2)
        three == SelectSeq(rows, LAMBDA g : g.boards = 3)
        four == SelectSeq(rows, LAMBDA g : g.boards >= 4)
    IN  /\ r.total_continuous_limit = RowCount(rows)
        /\ r.two_board_count = RowCount(two)
        /\ r.three_board_count = RowCount(three)
        /\ r.four_plus_count = RowCount(four)
        /\ r.three_board_stocks = CodeAndName(three)
        /\ r.four_plus_stocks = CodeAndName(four)
        /\ \A i \in 1..Len(four) : r.max_continuous_days >= four[i].boards
        /\ IF four = <<>> THEN r.max_continuous_days = 0
           ELSE \E i \in 1..Len(four) : r.max_continuous_days = four[i].boards
        /\ r.two_board_count + r.three_board_count + r.four_plus_count
              <= r.total_continuous_limit

\* C21: for every result of the consecutive-board pool, total_continuous_limit
\* is the number of its rows, two_board_count, three_board_count and
\* four_plus_count are the numbers of rows with 2, 3 and 4 or more boards,
\* three_board_stocks and four_plus_stocks list the code and name of exactly
\* those rows, and max_continuous_days is the largest board count of the rows
\* with 4 or more (0 without such rows); the three counts add up to
\* total_continuous_limit at most
C21_BoardCounts ==
    PoolAnswered => \A k \in 1..Len(agg.outs) : BoardCounts(agg.outs[k])

\* a pool with first-board rows, two rows of 3 boards and rows of 4 and of 6
\* boards was counted
C21_Witness ==
    /\ PoolAnswered
    /\ Called
    /\ LastOut.total_continuous_limit = 7
    /\ LastOut.three_board_count = 2
    /\ LastOut.four_plus_count = 2
    /\ LastOut.max_continuous_days = 6
    /\ Len(LastOut.three_board_stocks.v) = 2

\* step 1 returned at least one row
PoolHasRows == src.zt1.ok /\ RowCount(src.zt1.rows) > 0

SnapshotZeroed(r) ==
    /\ r.total_stocks = 0 /\ r.red_count = 0 /\ r.green_count = 0 /\ r.volume = 0
    /\ r.red_rate = 0 /\ r.market_strength = ""

SnapshotCounted(r) ==
    /\ r.total_stocks = RowCount(src.spot.rows)
    /\ r.red_count = RowCount(SelectSeq(src.spot.rows, LAMBDA g : g.chg > 0))
    /\ r.green_count = RowCount(SelectSeq(src.spot.rows, LAMBDA g : g.chg < 0))

SnapshotAsClaimed(r) ==
    /\ ~PoolHasRows => SnapshotZeroed(r)
    /\ (PoolHasRows /\ src.spot.ok /\ "zhangdiefu" \in src.spot.cols) => SnapshotCounted(r)

\* C22: whenever the limit-up pool call of step 1 returns no row or fails, the
\* record has total_stocks, red_count, green_count, volume and red_rate 0 and
\* market_strength empty, whatever the snapshot source holds; when step 1
\* returns rows, total_stocks is the number of snapshot rows and red_count and
\* green_count are the numbers of rows with a change above and below 0
C22_SnapshotGatedByStep1 ==
    akshare => \A k \in 1..Len(agg.outs) : SnapshotAsClaimed(agg.outs[k])

\* the same for the calls that do not end in the outer except
SnapshotAsClaimedOutsideFallback ==
    (akshare /\ ~ReviewBody(tradeDate, src).raised)
        => \A k \in 1..Len(agg.outs) : SnapshotAsClaimed(agg.outs[k])

\* step 1 returned no row, the snapshot held rows, and the call did not end in
\* the outer except
SnapshotSkipped ==
    /\ akshare /\ Called
    /\ ~PoolHasRows /\ RowCount(src.spot.rows) > 0
    /\ ~ReviewBody(tradeDate, src).raised

-----------------------------------------------------------------------------
(* Claims about market_strength and red_rate, under SpecSnapshot             *)

\* the class of the fraction red_count / total_stocks
ClaimedStrength(red_count, total_stocks) ==
    IF 10 * red_count >= 8 * total_stocks THEN "jiqiang"
    ELSE IF 10 * red_count >= 6 * total_stocks THEN "qiang"
    ELSE IF 10 * red_count >= 5 * total_stocks THEN "pianqiang"
    ELSE IF 10 * red_count >= 4 * total_stocks THEN "zhongxing"
    ELSE IF 10 * red_count >= 2 * total_stocks THEN "pianruo"
    ELSE "ruo"

\* C23: in every record the aggregator returns, market_strength is the empty
\* string exactly when total_stocks is 0 and otherwise the class of
\* red_count / total_stocks, tested from high to low: from 0.8 extremely
\* strong, from 0.6 strong, from 0.5 slightly strong, from 0.4 neutral, from
\* 0.2 slightly weak, below weak; red_rate is
\* round(red_count / total_stocks * 100), and 0 when total_stocks is 0
C23_StrengthAndRedRate ==
    \A k \in 1..Len(agg.outs) :
        LET r == agg.outs[k]
        IN  /\ (r.market_strength = "") <=> (r.total_stocks = 0)
            /\ r.total_stocks # 0 =>
                  r.market_strength = ClaimedStrength(r.red_count, r.total_stocks)
            /\ r.red_rate = IF r.total_stocks = 0 THEN 0
                            ELSE RoundPct(r.red_count, r.total_stocks)

\* two records of a snapshot with 3 of 8 stocks up: slightly weak, and a
\* red_rate rounded from 37.5
C23_Witness ==
    /\ Called
    /\ LastOut.total_stocks = 8
    /\ LastOut.red_count = 3
    /\ LastOut.red_rate = 38
    /\ LastOut.market_strength = "pianruo"
    /\ Len(agg.outs) = 2
    /\ agg.outs[1].market_strength = "pianruo"

-----------------------------------------------------------------------------
(* Claims about the stock lists with sector, under SpecAgg                   *)

\* an entry of a list with sector that carries the code and the name of this
\* stock and an empty sector
EntryOfStock(e, stock) ==
    /\ IsDict(e)
    /\ DictGet(e, KeyCode) = DictGet(stock, KeyDaima)
    /\ DictGet(e, KeyName) = DictGet(stock, KeyMingcheng)
    /\ DictGet(e, KeySector) = JStr(<<>>)

WithSectorOf(enriched, stocks) ==
    /\ Len(enriched.v) = Len(stocks.v)
    /\ \A i \in 1..Len(stocks.v) : EntryOfStock(enriched.v[i], stocks.v[i])

\* C24: in every record the aggregator returns, three_board_stocks_with_sector
\* and four_plus_stocks_with_sector hold one entry for each entry of
\* three_board_stocks and four_plus_stocks, in the same order, each with the
\* code and the name of that stock and an empty sector
C24_WithSectorCarriesCodeAndName ==
    \A k \in 1..Len(agg.outs) :
        /\ WithSectorOf(agg.outs[k].three_board_stocks_with_sector,
                        agg.outs[k].three_board_stocks)
        /\ WithSectorOf(agg.outs[k].four_plus_stocks_with_sector,
                        agg.outs[k].four_plus_stocks)

-----------------------------------------------------------------------------
(* More claims about the sector rotation analyzer, under SpecRotation        *)

\* C25: in every entry that analyze_sector_rotation returns, momentum follows
\* from the entry's hot_score, the value rounded to 2 decimals: strong from
\* 70, medium from 40, weak below
C25_MomentumOfReportedScore ==
    rotation.done =>
        \A i \in 1..Len(rotation.out) :
            rotation.out[i].momentum =
                IF rotation.out[i].hot_score >= 70 * 100 THEN "strong"
                ELSE IF rotation.out[i].hot_score >= 40 * 100 THEN "medium"
                ELSE "weak"

-----------------------------------------------------------------------------
(* More claims about the sentiment scorer, under SpecEmotion                 *)

\* how many sectors of a list have a positive change_pct
UpSectors(secs) == Cardinality({i \in 1..Len(secs) : secs[i].change_pct > 0})

\* the adjustment as the claim words it, on percentages of the list
ClaimedAdjustment(secs) ==
    IF Len(secs) = 0 THEN 0
    ELSE IF 100 * UpSectors(secs) > 60 * Len(secs) THEN 10
    ELSE IF 100 * UpSectors(secs) < 40 * Len(secs) THEN 0 - 10
    ELSE 0

\* 50 + (up_count / total_stocks - 0.5) * 40
\*    + (limit_up_count / total_stocks - limit_down_count / total_stocks) * 30
\* and the adjustment, over the denominator 2 * total_stocks; 50 and the
\* adjustment alone when total_stocks is 0
ClaimedScore(statistics, secs) ==
    IF statistics.total_stocks > 0
    THEN [n |-> 100 * statistics.total_stocks
                + (2 * statistics.up_count - statistics.total_stocks) * 40
                + (2 * statistics.limit_up_count - 2 * statistics.limit_down_count) * 30
                + ClaimedAdjustment(secs) * 2 * statistics.total_stocks,
          d |-> 2 * statistics.total_stocks]
    ELSE [n |-> 2 * (50 + ClaimedAdjustment(secs)), d |-> 2]

\* C26: the emotion score before the clamp is 50, plus (up_count /
\* total_stocks - 0.5) * 40 plus (limit_up_count / total_stocks -
\* limit_down_count / total_stocks) * 30 when total_stocks > 0, plus 10 when
\* strictly more than 60% of the sectors have a positive change_pct, minus 10
\* when strictly fewer than 40% have, and no adjustment otherwise, the empty
\* sector list included; the returned score is that sum clamped and rounded
C26_ScoreBeforeClamp ==
    Scored =>
        LET secs == get_sector_list(listed)
            x == Score(stats.v, secs)
            c == ClaimedScore(stats.v, secs)
            clamped == Max0(0, Min0(100 * c.d, c.n))
        IN  /\ 2 * x.n = c.n
            /\ 2 * x.d = c.d
            /\ emotion.out.emotion_score = Round2(clamped, c.d)

\* a score of 59.35 was returned for 1000 stocks with 700 up, 50 at the upper
\* limit and 5 at the lower, and 5 sectors of which exactly 3 are up
C26_Witness ==
    /\ Scored
    /\ listed.ok
    /\ Len(listed.v) = 5
    /\ UpSectors(listed.v) = 3
    /\ stats.v.total_stocks = 1000
    /\ stats.v.limit_up_count = 50
    /\ emotion.out.emotion_score = 5935

-----------------------------------------------------------------------------
(* Claims about the sector list crawler, under SpecCrawl                     *)

\* a row with at least 3 cells and a code and a name
Accepted(cols) ==
    Len(cols) >= 3 /\ get_text(cols, 1) # <<>> /\ get_text(cols, 2) # <<>>

\* the code and name of the accepted rows, in row order
RECURSIVE AcceptedRows(_)
AcceptedRows(rows) ==
    IF rows = <<>> THEN <<>>
    ELSE (IF Accepted(Head(rows))
          THEN <<[code |-> get_text(Head(rows), 1), name |-> get_text(Head(rows), 2)]>>
          ELSE <<>>) \o AcceptedRows(Tail(rows))

\* C27: the sector list holds exactly one record, in row order, for every
\* data row with at least 3 cells and a code and a name, whatever the text of
\* its change_pct and count cells, and none for a row with fewer than 3 cells;
\* a row that is skipped keeps no later row out, and every record has
\* total_stocks = up_count + down_count
C27_OneRecordPerAcceptedRow ==
    built.done =>
        /\ [i \in 1..Len(built.out) |->
               [code |-> built.out[i].code, name |-> built.out[i].name]]
           = AcceptedRows(DataRows(all_rows))
        /\ \A i \in 1..Len(built.out) :
               built.out[i].total_stocks
                   = built.out[i].up_count + built.out[i].down_count

\* the list but for the rows whose change_pct cell holds a '%' and no number
RowsExceptBadPercent ==
    built.done =>
        [i \in 1..Len(built.out) |->
            [code |-> built.out[i].code, name |-> built.out[i].name]]
        = AcceptedRows(SelectSeq(DataRows(all_rows),
              LAMBDA cols : ~(Len(cols) >= 3 /\ parse_number(get_text(cols, 3)).raised)))

\* a list was built from a table of a header and two rows, both kept, the
\* second with a count cell that holds no number
RowsKept ==
    /\ built.done
    /\ Len(all_rows) = 3
    /\ Len(built.out) = 2
    /\ built.out[2].up_count = 0
    /\ built.out[2].down_count = 15
    /\ built.out[2].total_stocks = 15

-----------------------------------------------------------------------------
(* Claims about the date under which create_review stores, under SpecStore   *)

\* C28: a create_review request for date D adds no record but one whose date
\* is D: it stores no record under another date, today's for one, and it
\* answers "a record of this date already exists" for no record that is
\* stored under another date than D
C28_StoresUnderRequestedDate ==
    \A i \in 1..NCalls :
        calls[i].pc = "done" /\ calls[i].api /\ ~calls[i].fault =>
            calls[i].stored = calls[i].date

\* a record that a request stores under another date than the requested one
\* is stored under today's, the date of _get_empty_data
StoresUnderRequestedDateOutsideFallback ==
    \A i \in 1..NCalls :
        /\ calls[i].pc = "done" /\ calls[i].api /\ ~calls[i].fault
        /\ calls[i].stored # calls[i].date
        => calls[i].stored = TodayDashed

\* a request for another day than today was stored under its own date
StoredUnderRequestedDate ==
    \E i \in 1..NCalls :
        /\ calls[i].pc = "done" /\ calls[i].api /\ calls[i].ret # None
        /\ calls[i].stored = calls[i].date
        /\ \E r \in table : r.date = calls[i].date /\ Some(r.id) = calls[i].ret

-----------------------------------------------------------------------------
(* Claims about the event relay, under SpecSse                               *)

\* the connections registered for a session
Registered(session_id) ==
    IF session_id \in DOMAIN sessions THEN sessions[session_id] ELSE {}

\* the step puts the message of op' once on the queues of qs and on no other
PutOnceOn(qs) ==
    \A c \in 1..MaxConns :
        conns'[c] = IF c \in qs
                    THEN [conns[c] EXCEPT !.queue = conns[c].queue \o <<op'.message>>]
                    ELSE conns[c]

\* the step takes the oldest message of the connection's queue for its event
YieldsOldest ==
    LET c == op'.conn
    IN  /\ conns[c].queue # <<>>
        /\ op'.event = Event(conns[c].queue[1])
        /\ conns'[c].queue = SubSeq(conns[c].queue, 2, Len(conns[c].queue))

\* C29: send(session_id, m) puts m exactly once on the queue of every
\* connection that is registered for session_id when it is called and on no
\* queue of another session, and does nothing when the session has no
\* connection; a connection yields the messages of its queue in the order in
\* which they were put
C29_SendReachesItsSession ==
    [][/\ op'.name = "send" =>
              /\ sessions' = sessions
              /\ PutOnceOn(Registered(op'.session_id))
       /\ op'.name = "yield" => YieldsOldest]_vars

\* m2 was sent to s1 after m1: the connection that was there for both holds
\* m1 before m2, the one that joined in between holds m2, and the connection
\* of s2 holds nothing
C29_Witness ==
    /\ op = [name |-> "send", session_id |-> "s1", message |-> "m2"]
    /\ \E a, b, c \in Live(conns) :
           /\ conns[a].session_id = "s1" /\ conns[a].queue = <<"m1", "m2">>
           /\ conns[b].session_id = "s1" /\ conns[b].queue = <<"m2">>
           /\ conns[c].session_id = "s2" /\ conns[c].queue = <<>>

\* C30: after any interleaving of connects, sends, broadcasts and
\* disconnects, no session of the table has an empty set of connections, the
\* queue of every live connection is registered under its own session id and
\* under no other, the queue of a closed connection is registered nowhere, and
\* get_total_connection_count is the number of live connections
C30_TableMatchesConnections ==
    /\ \A k \in DOMAIN sessions : sessions[k] # {}
    /\ \A c \in 1..MaxConns, k \in DOMAIN sessions :
           c \in sessions[k] <=> conns[c].state = "open" /\ conns[c].session_id = k
    /\ \A c \in Live(conns) : conns[c].session_id \in DOMAIN sessions
    /\ get_total_connection_count(sessions) = Cardinality(Live(conns))

\* the last connection of s2 has gone and two connections of s1 are live
C30_Witness ==
    /\ op.name = "disconnect"
    /\ DOMAIN sessions = {"s1"}
    /\ \E c \in 1..MaxConns : conns[c] = Closed
    /\ get_total_connection_count(sessions) = 2
    /\ get_session_count(sessions) = 1
====
